---------------------------- MODULE Spec2Model ----------------------------
(***************************************************************************)
(* A model of tipfy.sessions (experimental/tipfy/sessions/__init__.py):    *)
(* the secure cookie codec (SecureCookieStore), the session dictionaries   *)
(* (BaseSession, SecureCookieSession) and the per-request SessionStore.    *)
(*                                                                         *)
(* Strings are sequences of one-character strings.  Python values are      *)
(* tagged pairs <<tag, payload>>:                                          *)
(*   <<"None", 0>>            None                                         *)
(*   <<"int", n>>             an integer                                   *)
(*   <<"str", s>>             a str / unicode (s a sequence of characters) *)
(*   <<"list", q>>            a list (q a sequence of values)              *)
(*   <<"tuple", q>>           a tuple                                      *)
(*   <<"dict", P>>            a dict (P a set of <<key, value>> pairs,     *)
(*                            functional in the key)                       *)
(* so that Python's == on these values is TLA+ equality.                   *)
(***************************************************************************)
EXTENDS Integers, Sequences, FiniteSets, TLC

\* ------------------------------------------------------------------ bounds

\* The clock counts fractions of a second: time.time() is a float.
TicksPerSecond == 2

\* The second in which a request starts, and how many ticks the clock may
\* advance afterwards.
StartSecond == 10
MaxTicks == 2

\* The largest max_age, in seconds, a call or the configuration gives.
MaxAge == 1

\* How many add_flash calls are made in a row on one session.
MaxFlashes == 2

\* How many session objects exist during one request.
MaxObjects == 2

\* How often one store asks a backend to load the session of one pair.
MaxLoads == 2

\* How many calls of save are made in a row.
MaxSaves == 2

\* How many messages a handler sets during one request.
MaxMessages == 2

\* The longest string given to _check_signature by itself.
MaxLen == 3

\* ------------------------------------------------------------- characters

\* The printable ASCII characters, code 32 (space) to 126 (~); "GRAVE" stands
\* for the grave accent (code 96), which a TLA+ string cannot hold.
Printable ==
    << " ", "!", "\"", "#", "$", "%", "&", "'", "(", ")", "*", "+", ",", "-",
       ".", "/", "0", "1", "2", "3", "4", "5", "6", "7", "8", "9", ":", ";",
       "<", "=", ">", "?", "@", "A", "B", "C", "D", "E", "F", "G", "H", "I",
       "J", "K", "L", "M", "N", "O", "P", "Q", "R", "S", "T", "U", "V", "W",
       "X", "Y", "Z", "[", "\\", "]", "^", "_", "GRAVE", "a", "b", "c", "d", "e",
       "f", "g", "h", "i", "j", "k", "l", "m", "n", "o", "p", "q", "r", "s",
       "t", "u", "v", "w", "x", "y", "z", "{", "|", "}", "~" >>

PrintableSet == { Printable[i] : i \in 1..Len(Printable) }

\* A byte that is no printable ASCII character.
NonPrintable == "\\x"

OrdTable == [ c \in PrintableSet |-> 31 + (CHOOSE i \in 1..Len(Printable) : Printable[i] = c) ]

\* ord(c)
Ord(c) == IF c \in PrintableSet THEN OrdTable[c] ELSE 0

\* chr(n)
Chr(n) == IF n \in 32..126 THEN Printable[n - 31] ELSE NonPrintable

Digits == << "0", "1", "2", "3", "4", "5", "6", "7", "8", "9" >>

DigitSet == { Digits[i] : i \in 1..10 }

DigitValue(c) == Ord(c) - 48

HexDigits == << "0", "1", "2", "3", "4", "5", "6", "7", "8", "9", "a", "b", "c", "d", "e", "f" >>

Range(q) == { q[i] : i \in 1..Len(q) }

RECURSIVE Join(_, _)
\* sep.join(parts)
Join(sep, parts) ==
    IF parts = << >> THEN << >>
    ELSE IF Len(parts) = 1 THEN parts[1]
    ELSE parts[1] \o sep \o Join(sep, Tail(parts))

RECURSIVE Split(_, _)
\* s.split(sep) for a one-character separator: always at least one field.
Split(s, sep) ==
    IF \A i \in 1..Len(s) : s[i] # sep THEN << s >>
    ELSE LET i == CHOOSE j \in 1..Len(s) : s[j] = sep /\ \A h \in 1..(j - 1) : s[h] # sep
         IN  << SubSeq(s, 1, i - 1) >> \o Split(SubSeq(s, i + 1, Len(s)), sep)

RECURSIVE NatToStr(_)
\* str(n) for n >= 0
NatToStr(n) ==
    IF n < 10 THEN << Digits[n + 1] >>
    ELSE NatToStr(n \div 10) \o << Digits[(n % 10) + 1] >>

\* str(n)
IntToStr(n) == IF n < 0 THEN << "-" >> \o NatToStr(0 - n) ELSE NatToStr(n)

RECURSIVE DigitsToNat(_)
DigitsToNat(s) ==
    IF s = << >> THEN 0
    ELSE 10 * DigitsToNat(SubSeq(s, 1, Len(s) - 1)) + DigitValue(s[Len(s)])

RECURSIVE Strip(_)
\* s.strip() for spaces
Strip(s) ==
    IF s # << >> /\ Head(s) = " " THEN Strip(Tail(s))
    ELSE IF s # << >> /\ s[Len(s)] = " " THEN Strip(SubSeq(s, 1, Len(s) - 1))
    ELSE s

\* int(s): [ok |-> TRUE, val |-> n], or ok = FALSE where int() raises ValueError.
PyInt(s) ==
    LET t == Strip(s)
        signed == t # << >> /\ Head(t) \in {"-", "+"}
        body == IF signed THEN Tail(t) ELSE t
    IN  IF body # << >> /\ \A i \in 1..Len(body) : body[i] \in DigitSet
        THEN [ok |-> TRUE,
              val |-> IF signed /\ Head(t) = "-" THEN 0 - DigitsToNat(body) ELSE DigitsToNat(body)]
        ELSE [ok |-> FALSE, val |-> 0]

\* ----------------------------------------------------------------- base64

B64Alphabet ==
    << "A", "B", "C", "D", "E", "F", "G", "H", "I", "J", "K", "L", "M", "N",
       "O", "P", "Q", "R", "S", "T", "U", "V", "W", "X", "Y", "Z", "a", "b",
       "c", "d", "e", "f", "g", "h", "i", "j", "k", "l", "m", "n", "o", "p",
       "q", "r", "s", "t", "u", "v", "w", "x", "y", "z", "0", "1", "2", "3",
       "4", "5", "6", "7", "8", "9", "+", "/" >>

B64Set == { B64Alphabet[i] : i \in 1..64 }

B64Pad == "="

\* The six-bit value of a base64 character.
B64Value(c) == (CHOOSE i \in 1..64 : B64Alphabet[i] = c) - 1

RECURSIVE B64EncodeBytes(_)
\* base64.b64encode of a sequence of byte values.
B64EncodeBytes(b) ==
    IF b = << >> THEN << >>
    ELSE IF Len(b) = 1 THEN
        << B64Alphabet[(b[1] \div 4) + 1], B64Alphabet[((b[1] % 4) * 16) + 1], B64Pad, B64Pad >>
    ELSE IF Len(b) = 2 THEN
        << B64Alphabet[(b[1] \div 4) + 1],
           B64Alphabet[((b[1] % 4) * 16 + (b[2] \div 16)) + 1],
           B64Alphabet[((b[2] % 16) * 4) + 1],
           B64Pad >>
    ELSE
        << B64Alphabet[(b[1] \div 4) + 1],
           B64Alphabet[((b[1] % 4) * 16 + (b[2] \div 16)) + 1],
           B64Alphabet[((b[2] % 16) * 4 + (b[3] \div 64)) + 1],
           B64Alphabet[(b[3] % 64) + 1] >>
        \o B64EncodeBytes(SubSeq(b, 4, Len(b)))

\* base64.b64encode(s)
B64Encode(s) == B64EncodeBytes([ i \in 1..Len(s) |-> Ord(s[i]) ])

\* Whether the first character of s that base64 does not skip, after position
\* i, is the padding character (binascii_find_valid(..., 1) == '=').
NextValidIsPad(s, i) ==
    \E j \in (i + 1)..Len(s) :
        /\ s[j] = B64Pad
        /\ \A h \in (i + 1)..(j - 1) : s[h] \notin B64Set /\ s[h] # B64Pad

RECURSIVE B64Scan(_, _, _)
\* binascii.a2b_base64 from position i of s on, st being the decoder's state
\* (quad_pos, leftchar, leftbits and the bytes written): characters outside
\* the alphabet are skipped, padding ends the input once a quad holds at
\* least two characters, and bits left over at the end are "Incorrect
\* padding".
B64Scan(s, i, st) ==
    IF i > Len(s) THEN [ok |-> st.leftbits = 0, bytes |-> st.out]
    ELSE IF s[i] = B64Pad THEN
        IF st.quad < 2 \/ (st.quad = 2 /\ ~NextValidIsPad(s, i))
        THEN B64Scan(s, i + 1, st)
        ELSE [ok |-> TRUE, bytes |-> st.out]
    ELSE IF s[i] \notin B64Set THEN B64Scan(s, i + 1, st)
    ELSE LET acc == st.leftchar * 64 + B64Value(s[i])
             bits == st.leftbits + 6
         IN  IF bits >= 8
             THEN B64Scan(s, i + 1,
                          [quad |-> (st.quad + 1) % 4,
                           leftchar |-> acc % (2 ^ (bits - 8)),
                           leftbits |-> bits - 8,
                           out |-> Append(st.out, (acc \div (2 ^ (bits - 8))) % 256)])
             ELSE B64Scan(s, i + 1,
                          [quad |-> (st.quad + 1) % 4, leftchar |-> acc, leftbits |-> bits,
                           out |-> st.out])

\* base64.b64decode(s): [ok |-> TRUE, val |-> the decoded string], or
\* ok = FALSE where it raises TypeError.
B64Decode(s) ==
    LET r == B64Scan(s, 1, [quad |-> 0, leftchar |-> 0, leftbits |-> 0, out |-> << >>])
    IN  [ok |-> r.ok, val |-> [ i \in 1..Len(r.bytes) |-> Chr(r.bytes[i]) ]]

\* ------------------------------------------------------------------- JSON

None == << "None", 0 >>

PyStr(s) == << "str", s >>

PyNum(n) == << "int", n >>

PyList(q) == << "list", q >>

PyTuple(q) == << "tuple", q >>

PyDict(pairs) == << "dict", pairs >>

EmptyDict == PyDict({})

IsDict(v) == v[1] = "dict"

\* k in d
HasKey(d, k) == \E p \in d[2] : p[1] = k

\* d[k], for a key that is present
GetItem(d, k) == (CHOOSE p \in d[2] : p[1] = k)[2]

\* d with d[k] = v
SetItem(d, k, v) == PyDict({ p \in d[2] : p[1] # k } \cup { << k, v >> })

\* d with k removed
DelItem(d, k) == PyDict({ p \in d[2] : p[1] # k })

\* The items of a dict in the order iteration yields them (one fixed order
\* for each dict).
Items(d) ==
    IF d[2] = {} THEN << >>
    ELSE CHOOSE q \in [1..Cardinality(d[2]) -> d[2]] : Range(q) = d[2]

\* The characters a JSON string holds unescaped.
JsonPlain(c) == c \in PrintableSet /\ c # "\"" /\ c # "\\"

RECURSIVE JsonEncode(_)
RECURSIVE JsonEncodeSeq(_)
RECURSIVE JsonEncodeItems(_)

\* The elements of an array, separated by ','.
JsonEncodeSeq(q) ==
    IF q = << >> THEN << >>
    ELSE IF Len(q) = 1 THEN JsonEncode(q[1])
    ELSE JsonEncode(q[1]) \o << "," >> \o JsonEncodeSeq(Tail(q))

\* The members of an object: a key that is an integer is written as a string.
JsonEncodeItems(q) ==
    IF q = << >> THEN << >>
    ELSE LET k == q[1][1]
             key == IF k[1] = "int" THEN PyStr(IntToStr(k[2])) ELSE k
             member == JsonEncode(key) \o << ":" >> \o JsonEncode(q[1][2])
         IN  IF Len(q) = 1 THEN member ELSE member \o << "," >> \o JsonEncodeItems(Tail(q))

\* json_encode(v, separators=(',', ':')): lists and tuples are both written
\* as arrays.
JsonEncode(v) ==
    CASE v[1] = "None" -> << "n", "u", "l", "l" >>
      [] v[1] = "int" -> IntToStr(v[2])
      [] v[1] = "str" -> << "\"" >> \o v[2] \o << "\"" >>
      [] v[1] \in {"list", "tuple"} -> << "[" >> \o JsonEncodeSeq(v[2]) \o << "]" >>
      [] v[1] = "dict" -> << "{" >> \o JsonEncodeItems(Items(v)) \o << "}" >>

\* A failed parse.
JsonFail == [ok |-> FALSE, val |-> None, pos |-> 0]

\* The end of the run of digits that starts at position i of s.
DigitsEnd(s, i) ==
    CHOOSE j \in i..(Len(s) + 1) :
        /\ \A h \in i..(j - 1) : s[h] \in DigitSet
        /\ (j = Len(s) + 1 \/ s[j] \notin DigitSet)

\* The string literal whose opening quote is at position i of s.
JsonParseString(s, i) ==
    IF i > Len(s) \/ s[i] # "\"" THEN JsonFail
    ELSE IF \E j \in (i + 1)..Len(s) : s[j] = "\"" /\ \A h \in (i + 1)..(j - 1) : JsonPlain(s[h])
    THEN LET j == CHOOSE j \in (i + 1)..Len(s) :
                      s[j] = "\"" /\ \A h \in (i + 1)..(j - 1) : JsonPlain(s[h])
         IN  [ok |-> TRUE, val |-> PyStr(SubSeq(s, i + 1, j - 1)), pos |-> j + 1]
    ELSE JsonFail

RECURSIVE JsonParseValue(_, _)
RECURSIVE JsonParseElements(_, _, _)
RECURSIVE JsonParseMembers(_, _, _)

\* The elements of an array after its '[' or after a ',': acc holds those
\* read so far.
JsonParseElements(s, i, acc) ==
    LET e == JsonParseValue(s, i)
    IN  IF ~e.ok \/ e.pos > Len(s) THEN JsonFail
        ELSE IF s[e.pos] = "]" THEN [ok |-> TRUE, val |-> PyList(Append(acc, e.val)), pos |-> e.pos + 1]
        ELSE IF s[e.pos] = "," THEN JsonParseElements(s, e.pos + 1, Append(acc, e.val))
        ELSE JsonFail

\* The members of an object after its '{' or after a ',': a repeated key
\* keeps its last value.
JsonParseMembers(s, i, acc) ==
    LET k == JsonParseString(s, i)
    IN  IF ~k.ok \/ k.pos > Len(s) \/ s[k.pos] # ":" THEN JsonFail
        ELSE LET e == JsonParseValue(s, k.pos + 1)
                 d == SetItem(acc, k.val, e.val)
             IN  IF ~e.ok \/ e.pos > Len(s) THEN JsonFail
                 ELSE IF s[e.pos] = "}" THEN [ok |-> TRUE, val |-> d, pos |-> e.pos + 1]
                 ELSE IF s[e.pos] = "," THEN JsonParseMembers(s, e.pos + 1, d)
                 ELSE JsonFail

\* The JSON value that starts at position i of s, and the position after it.
JsonParseValue(s, i) ==
    IF i > Len(s) THEN JsonFail
    ELSE IF s[i] = "\"" THEN JsonParseString(s, i)
    ELSE IF s[i] \in DigitSet THEN
        LET j == DigitsEnd(s, i)
        IN  IF s[i] = "0" /\ j > i + 1 THEN JsonFail
            ELSE [ok |-> TRUE, val |-> PyNum(DigitsToNat(SubSeq(s, i, j - 1))), pos |-> j]
    ELSE IF s[i] = "-" THEN
        LET j == DigitsEnd(s, i + 1)
        IN  IF j = i + 1 \/ (s[i + 1] = "0" /\ j > i + 2) THEN JsonFail
            ELSE [ok |-> TRUE, val |-> PyNum(0 - DigitsToNat(SubSeq(s, i + 1, j - 1))), pos |-> j]
    ELSE IF i + 3 <= Len(s) /\ SubSeq(s, i, i + 3) = << "n", "u", "l", "l" >> THEN
        [ok |-> TRUE, val |-> None, pos |-> i + 4]
    ELSE IF s[i] = "[" THEN
        IF i + 1 <= Len(s) /\ s[i + 1] = "]"
        THEN [ok |-> TRUE, val |-> PyList(<< >>), pos |-> i + 2]
        ELSE JsonParseElements(s, i + 1, << >>)
    ELSE IF s[i] = "{" THEN
        IF i + 1 <= Len(s) /\ s[i + 1] = "}"
        THEN [ok |-> TRUE, val |-> EmptyDict, pos |-> i + 2]
        ELSE JsonParseMembers(s, i + 1, EmptyDict)
    ELSE JsonFail

\* json_decode(s): [ok |-> TRUE, val |-> the value], or ok = FALSE where it
\* raises ValueError.  (Compact JSON of null, integers, strings without
\* escapes, arrays and objects.)
JsonDecode(s) ==
    LET r == JsonParseValue(s, 1)
    IN  IF r.ok /\ r.pos = Len(s) + 1 THEN [ok |-> TRUE, val |-> r.val]
        ELSE [ok |-> FALSE, val |-> None]

\* ------------------------------------------------------ SecureCookieStore

RECURSIVE BitXor(_, _)
\* a ^ b
BitXor(a, b) ==
    IF a = 0 /\ b = 0 THEN 0
    ELSE (((a % 2) + (b % 2)) % 2) + 2 * BitXor(a \div 2, b \div 2)

RECURSIVE BitOr(_, _)
\* a | b
BitOr(a, b) ==
    IF a = 0 /\ b = 0 THEN 0
    ELSE (IF a % 2 = 1 \/ b % 2 = 1 THEN 1 ELSE 0) + 2 * BitOr(a \div 2, b \div 2)

\* Two lowercase hexadecimal digits for a byte value.
HexByte(n) == << HexDigits[(n \div 16) + 1], HexDigits[(n % 16) + 1] >>

\* The lowercase hexadecimal rendering of a string's bytes.
Hex(s) == [ i \in 1..(2 * Len(s)) |-> HexByte(Ord(s[(i + 1) \div 2]))[2 - (i % 2)] ]

\* hmac.new(key, msg, hashlib.sha1).hexdigest(), as an ideal keyed MAC: a
\* lowercase hexadecimal string that is different for different (key, msg).
HmacSha1Hex(key, msg) == HexByte(Len(key)) \o Hex(key) \o Hex(msg)

\* SecureCookieStore._get_signature(*parts)
GetSignature(secret_key, parts) == HmacSha1Hex(secret_key, Join(<< "|" >>, parts))

RECURSIVE XorAccumulate(_, _, _, _)
\* The loop of _check_signature, result |= ord(x) ^ ord(y) over zip(a, b):
\* what the positions lo..hi contribute to result (| is associative, so the
\* halves are combined in any order).
XorAccumulate(a, b, lo, hi) ==
    IF lo > hi THEN 0
    ELSE IF lo = hi THEN BitXor(Ord(a[lo]), Ord(b[lo]))
    ELSE LET mid == (lo + hi) \div 2
         IN  BitOr(XorAccumulate(a, b, lo, mid), XorAccumulate(a, b, mid + 1, hi))

\* A mutant of CheckSignature: the lengths are not compared, and zip() stops
\* at the shorter string.
CheckSignatureNoLength(a, b) ==
    XorAccumulate(a, b, 1, IF Len(a) < Len(b) THEN Len(a) ELSE Len(b)) = 0

\* SecureCookieStore._check_signature(a, b)
CheckSignature(a, b) ==
    IF Len(a) # Len(b) THEN FALSE
    ELSE XorAccumulate(a, b, 1, Len(a)) = 0

RECURSIVE CheckSignatureLoop(_, _, _, _, _)
\* for x, y in zip(a, b): result |= ord(x) ^ ord(y), from the i-th pair on;
\* `pairs` are the positions compared so far.
CheckSignatureLoop(a, b, i, result, pairs) ==
    IF i > Len(a) \/ i > Len(b) THEN [result |-> result, pairs |-> pairs]
    ELSE CheckSignatureLoop(a, b, i + 1, BitOr(result, BitXor(Ord(a[i]), Ord(b[i]))),
                            Append(pairs, i))

\* A mutant of _check_signature: the loop is left at the first pair of
\* characters that differ.
CheckSignatureRunEarlyExit(a, b) ==
    IF Len(a) # Len(b) THEN [out |-> FALSE, pairs |-> << >>]
    ELSE LET differ == { i \in 1..Len(a) : a[i] # b[i] }
             last == IF differ = { } THEN Len(a)
                     ELSE CHOOSE i \in differ : \A j \in differ : i <= j
         IN  [out |-> differ = { }, pairs |-> [i \in 1..last |-> i]]

\* SecureCookieStore._check_signature(a, b), statement by statement: what
\* it returns and the positions whose characters it has compared.
CheckSignatureRun(a, b) ==
    IF Len(a) # Len(b) THEN [out |-> FALSE, pairs |-> << >>]
    ELSE [out |-> CheckSignatureLoop(a, b, 1, 0, << >>).result = 0,
          pairs |-> CheckSignatureLoop(a, b, 1, 0, << >>).pairs]

\* SecureCookieStore._encode(value)
Encode(value) == B64Encode(JsonEncode(value))

\* SecureCookieStore._decode(value): ok = FALSE where it raises.
Decode(value) ==
    LET b == B64Decode(value)
    IN  IF b.ok THEN JsonDecode(b.val) ELSE [ok |-> FALSE, val |-> None]

\* int(time.time()), for the clock's reading t in ticks.
UnixTime(t) == t \div TicksPerSecond

\* A mutant of GetSignedValue: the signature is computed before value is
\* rebound to its encoding.
GetSignedValueOfRaw(secret_key, name, value, t) ==
    LET timestamp == IntToStr(UnixTime(t))
        signature == GetSignature(secret_key, << name, JsonEncode(value), timestamp >>)
    IN  Join(<< "|" >>, << Encode(value), timestamp, signature >>)

\* SecureCookieStore.get_signed_value(name, value) at clock reading t
GetSignedValue(secret_key, name, value, t) ==
    LET timestamp == IntToStr(UnixTime(t))
        encoded == Encode(value)
        signature == GetSignature(secret_key, << name, encoded, timestamp >>)
    IN  Join(<< "|" >>, << encoded, timestamp, signature >>)

\* What a call does: the exception it raises ("" for none), the value it
\* returns and the warning it logs ("" for none).
Outcome(raised, val, log) == [raised |-> raised, val |-> val, log |-> log]

Returns(val) == Outcome("", val, "")

\* A mutant of Expired: a token exactly max_age old is expired too.
ExpiredAtBoundary(ts, t, max_age) == ts * TicksPerSecond <= t - max_age * TicksPerSecond

\* int(parts[1]) < time.time() - max_age, for the clock's reading t
Expired(ts, t, max_age) == ts * TicksPerSecond < t - max_age * TicksPerSecond

\* The number of fields get_cookie requires of a token.
TokenFields == 3

\* A mutant of WellFormed: values with more fields than a token are let in.
WellFormedAtLeast(parts) == Len(parts) >= TokenFields

\* len(parts) != 3 is what get_cookie rejects.
WellFormed(parts) == Len(parts) = TokenFields

\* SecureCookieStore.get_cookie(request, name, max_age) at clock reading t;
\* cookies is request.cookies.
GetCookie(secret_key, cookies, name, max_age, t) ==
    IF name \notin DOMAIN cookies \/ cookies[name] = << >> THEN Returns(None)
    ELSE LET value == cookies[name]
             parts == Split(value, "|")
         IN  IF ~WellFormed(parts) THEN Returns(None)
             ELSE IF ~CheckSignature(parts[3], GetSignature(secret_key, << name, parts[1], parts[2] >>))
             THEN Outcome("", None, "Invalid cookie signature")
             ELSE IF max_age # None /\ ~PyInt(parts[2]).ok
             THEN Outcome("ValueError", None, "")
             ELSE IF max_age # None /\ Expired(PyInt(parts[2]).val, t, max_age[2])
             THEN Outcome("", None, "Expired cookie")
             ELSE IF Decode(parts[1]).ok THEN Returns(Decode(parts[1]).val)
             ELSE Outcome("", None, "Cookie value failed to be decoded")

\* ------------------------------------------------------------------ state

VARIABLES
    request,          \* request.cookies: cookie name -> cookie value
    clock,            \* the time, in ticks of 1/TicksPerSecond second
    session_max_age,  \* config['session_max_age']
    sessions,         \* SessionStore._sessions
    cookies,          \* SessionStore._cookies
    heap,             \* the session objects: data and modified flag
    response,         \* the calls the last call made on the response handed to it
    call,             \* the last call made and its outcome
    origin,           \* how the request's cookie came to be (history)
    flashlog,         \* per session object, the add_flash calls made in a row (history)
    returned,         \* per (backend, key), what get_session returned last (history)
    staging,          \* per cookie key, the last call that staged it (history)
    emitted,          \* per call on the response, what save made it for (history)
    secret_key,       \* config['secret_key'] as the application sets it
    built,            \* whether the SessionStore of the request is constructed
    cookie_args,      \* config['cookie_args']
    options,          \* per (backend, key), the options of the call that tracked it (history)
    loads,            \* per (backend, key), how often the backend was asked to load it,
                      \* where that is counted (history)
    saves,            \* how many calls of save were made in a row, the last call included (history)
    compared,         \* the positions the last call of _check_signature by itself has compared
                      \* (history)
    handler           \* the request handler: its cached messages, and the messages it has
                      \* set with flash=True (history)

vars ==
    << request, clock, session_max_age, sessions, cookies, heap, response, call, origin,
       flashlog, returned, staging, emitted, secret_key, built, cookie_args, options, loads,
       saves, compared, handler >>

settingVars == << session_max_age, secret_key, built >>

configVars == << settingVars, cookie_args >>

requestVars == << request, clock, configVars, origin, compared, handler >>

\* What a call that uses get_cookie_args leaves alone of the request.
argsVars == << request, clock, settingVars, origin, compared, handler >>

sessionVars == << sessions, returned, options, loads >>

cookieVars == << cookies, staging >>

responseVars == << response, emitted, saves >>

storeVars == << sessionVars, cookieVars, responseVars, heap, flashlog >>

\* A request handler that has not looked at its messages and has set none.
NoHandler == [cached |-> FALSE, messages |-> << >>, flashed |-> << >>]

\* The call takes no response object.
NoResponse == response' = << >> /\ emitted' = << >> /\ saves' = 0

\* config['secret_key'] of this application, and the key of another one.
SecretKey == << "s", "3", "c", "r", "3", "t" >>

OtherKey == << "0", "t", "h", "e", "r", "!" >>

\* config['cookie_name'], and a second session key.
CookieName == << "s", "e", "s", "s", "i", "o", "n" >>

Foo == << "f", "o", "o" >>

CookieNames == { CookieName, Foo }

\* tipfy.DEFAULT_VALUE
DEFAULT_VALUE == << "DEFAULT_VALUE", 0 >>

\* SessionStore.get_secure_cookie(name, max_age) at clock reading t
StoreGetSecureCookie(cookies_in, config_max_age, name, max_age, t) ==
    LET age == IF max_age = DEFAULT_VALUE THEN config_max_age ELSE max_age
    IN  GetCookie(SecretKey, cookies_in, name, age, t)

\* The max_age a get_secure_cookie call ends up using.
ResolvedMaxAge(max_age) == IF max_age = DEFAULT_VALUE THEN session_max_age ELSE max_age

\* No call yet.  `at` is the clock reading at the time of the call.
NoCall == [op |-> "", name |-> << >>, arg |-> None, max_age |-> None, at |-> 0, out |-> Returns(None)]

\* A handler calls store.get_secure_cookie(name, max_age).
GetSecureCookie(name, max_age) ==
    /\ call' = [op |-> "get_secure_cookie", name |-> name, arg |-> None,
                max_age |-> ResolvedMaxAge(max_age), at |-> clock,
                out |-> StoreGetSecureCookie(request, session_max_age, name, max_age, clock)]
    /\ NoResponse
    /\ UNCHANGED << requestVars, sessionVars, cookieVars, heap, flashlog >>

\* A handler calls store.secure_cookie_store.get_signed_value(name, value).
SignValue(name, value) ==
    /\ call' = [op |-> "get_signed_value", name |-> name, arg |-> value, max_age |-> None,
                at |-> clock,
                out |-> Returns(PyStr(GetSignedValue(SecretKey, name, value, clock)))]
    /\ NoResponse
    /\ UNCHANGED << requestVars, sessionVars, cookieVars, heap, flashlog >>

\* The client presents the token just signed as the cookie of that name, in
\* a request to a store with the same configuration.
Present ==
    /\ call.op = "get_signed_value"
    /\ request' = (call.name :> call.out.val[2])
    /\ origin' = [kind |-> "signed_here", name |-> call.name, value |-> call.arg,
                  ts |-> UnixTime(call.at)]
    /\ call' = NoCall
    /\ UNCHANGED << clock, configVars, storeVars, compared, handler >>

\* Time passes.
Tick ==
    /\ clock < StartSecond * TicksPerSecond + MaxTicks
    /\ clock' = clock + 1
    /\ UNCHANGED << request, configVars, storeVars, call, origin, compared, handler >>

\* store.secure_cookie_store._check_signature(a, b) is called by itself.
CheckSignatureCall(a, b) ==
    /\ call' = [op |-> "_check_signature", name |-> a, arg |-> PyStr(b), max_age |-> None,
                at |-> clock,
                out |-> Returns(<< "bool", IF CheckSignatureRun(a, b).out THEN 1 ELSE 0 >>)]
    /\ compared' = CheckSignatureRun(a, b).pairs
    /\ NoResponse
    /\ UNCHANGED << request, clock, configVars, origin, sessionVars, cookieVars, heap, flashlog,
                    handler >>

\* ------------------------------------------------------------- BaseSession

\* A reference to the session object heap[id].
Handle(id) == << "session", id >>

\* A mutant of SecureCookieSession(data): filling the new session marks it
\* modified.
NewSessionModified(data) == [data |-> data, modified |-> TRUE]

\* SecureCookieSession(data): a new session object, not modified.
NewSession(data) == [data |-> data, modified |-> FALSE]

\* The default flash key, '_flash'.
FlashKey == PyStr(<< "_", "f", "l", "a", "s", "h" >>)

UidKey == PyStr(<< "u", "i", "d" >>)

\* The log of a session on which no add_flash call was made since the last
\* other operation: whether the flash key is absent from it, the values of
\* the add_flash calls made in a row since, and the last operation.
NoFlashes(data, last) == [fresh |-> ~HasKey(data, FlashKey), vals |-> << >>, last |-> last]

\* A call on a session object, and its outcome.
SessionCall(op, id, key, out) ==
    [op |-> op, name |-> key[2], arg |-> Handle(id), max_age |-> None, at |-> clock, out |-> out]

\* BaseSession.get_flashes(key): the session afterwards and the outcome.
\* (ModificationTrackingDict.pop sets modified.)
GetFlashesOf(session, key) ==
    IF ~HasKey(session.data, key)
    THEN [session |-> session, out |-> Returns(PyList(<< >>))]
    ELSE [session |-> [data |-> DelItem(session.data, key), modified |-> TRUE],
          out |-> Returns(GetItem(session.data, key))]

\* A mutant of BaseSession.add_flash: the value is put in front of the list.
AddFlashInFront(session, value, key) ==
    LET flashes == IF HasKey(session.data, key) THEN GetItem(session.data, key) ELSE PyList(<< >>)
    IN  IF flashes[1] = "list"
        THEN [session |-> [data |-> SetItem(session.data, key, PyList(<< value >> \o flashes[2])),
                           modified |-> TRUE],
              out |-> Returns(None)]
        ELSE [session |-> [data |-> session.data, modified |-> TRUE],
              out |-> Outcome("AttributeError", None, "")]

\* BaseSession.add_flash(value, key): self.setdefault(key, []).append(value).
\* (ModificationTrackingDict.setdefault sets modified, whether the key is
\* there or not; append raises for a value that is no list.)
AddFlashOf(session, value, key) ==
    LET flashes == IF HasKey(session.data, key) THEN GetItem(session.data, key) ELSE PyList(<< >>)
    IN  IF flashes[1] = "list"
        THEN [session |-> [data |-> SetItem(session.data, key, PyList(Append(flashes[2], value))),
                           modified |-> TRUE],
              out |-> Returns(None)]
        ELSE [session |-> [data |-> SetItem(session.data, key, flashes), modified |-> TRUE],
              out |-> Outcome("AttributeError", None, "")]

\* A handler calls session.get_flashes(key) on the session heap[id].
GetFlashes(id, key) ==
    LET r == GetFlashesOf(heap[id], key)
    IN  /\ heap' = [heap EXCEPT ![id] = r.session]
        /\ flashlog' = [flashlog EXCEPT ![id] = NoFlashes(r.session.data, "get_flashes")]
        /\ call' = SessionCall("get_flashes", id, key, r.out)
        /\ NoResponse
        /\ UNCHANGED << requestVars, sessionVars, cookieVars >>

\* A handler calls session.add_flash(value, key) on the session heap[id].
AddFlash(id, value, key) ==
    LET r == AddFlashOf(heap[id], value, key)
    IN  /\ Len(flashlog[id].vals) < MaxFlashes
        /\ HasKey(heap[id].data, key) /\ GetItem(heap[id].data, key)[1] = "list"
            => Len(GetItem(heap[id].data, key)[2]) <= MaxFlashes
        /\ heap' = [heap EXCEPT ![id] = r.session]
        /\ flashlog' = [flashlog EXCEPT ![id] = [fresh |-> @.fresh, vals |-> Append(@.vals, value),
                                                  last |-> "add_flash"]]
        /\ call' = SessionCall("add_flash", id, key, r.out)
        /\ NoResponse
        /\ UNCHANGED << requestVars, sessionVars, cookieVars >>

\* A handler executes session[key] = value on the session heap[id].
\* (ModificationTrackingDict.__setitem__ sets modified.)
SessionSetItem(id, key, value) ==
    /\ heap' = [heap EXCEPT ![id] = [data |-> SetItem(@.data, key, value), modified |-> TRUE]]
    /\ flashlog' = [flashlog EXCEPT ![id] = NoFlashes(heap'[id].data, "setitem")]
    /\ call' = SessionCall("setitem", id, key, Returns(None))
    /\ NoResponse
    /\ UNCHANGED << requestVars, sessionVars, cookieVars >>

\* A handler executes del session[key] on the session heap[id]: KeyError,
\* and no change, for a key that is not there.
SessionDelItem(id, key) ==
    /\ heap' = IF HasKey(heap[id].data, key)
               THEN [heap EXCEPT ![id] = [data |-> DelItem(@.data, key), modified |-> TRUE]]
               ELSE heap
    /\ flashlog' = [flashlog EXCEPT ![id] = NoFlashes(heap'[id].data, "delitem")]
    /\ call' = SessionCall("delitem", id, key,
                           IF HasKey(heap[id].data, key) THEN Returns(None)
                           ELSE Outcome("KeyError", None, ""))
    /\ NoResponse
    /\ UNCHANGED << requestVars, sessionVars, cookieVars >>

\* A mutant of pop: the modified flag is left as it was.
PopKeepsFlag(session, key) ==
    IF ~HasKey(session.data, key)
    THEN [session |-> session, out |-> Outcome("KeyError", None, "")]
    ELSE [session |-> [data |-> DelItem(session.data, key), modified |-> session.modified],
          out |-> Returns(GetItem(session.data, key))]

\* session.pop(key): the session afterwards and the outcome; KeyError, and
\* no change, for a key that is not there. (ModificationTrackingDict.pop
\* sets modified when dict.pop returns.)
PopOf(session, key) ==
    IF ~HasKey(session.data, key)
    THEN [session |-> session, out |-> Outcome("KeyError", None, "")]
    ELSE [session |-> [data |-> DelItem(session.data, key), modified |-> TRUE],
          out |-> Returns(GetItem(session.data, key))]

\* A handler calls session.pop(key) on the session heap[id].
SessionPop(id, key) ==
    LET r == PopOf(heap[id], key)
    IN  /\ heap' = [heap EXCEPT ![id] = r.session]
        /\ flashlog' = [flashlog EXCEPT ![id] = NoFlashes(r.session.data, "pop")]
        /\ call' = SessionCall("pop", id, key, r.out)
        /\ NoResponse
        /\ UNCHANGED << requestVars, sessionVars, cookieVars >>

\* ------------------------------------------------------------ SessionStore

\* config['default_backend']
DefaultBackend == "securecookie"

\* SessionStore.default_backends, where APPENGINE is false.
RegisteredBackends == { "securecookie" }

\* A backend that is registered only where APPENGINE is true.
Memcache == "memcache"

PyFalse == << "bool", 0 >>

\* config['cookie_args']
DefaultCookieArgs ==
    [max_age |-> None, domain |-> None, path |-> PyStr(<< "/" >>), secure |-> None,
     httponly |-> PyFalse]

\* No keyword arguments.
NoKwargs == << >>

\* A mutant of SessionStore.get_cookie_args: the configured options win
\* over those of the call.
GetCookieArgsDefaultsWin(kwargs) == cookie_args @@ kwargs

\* SessionStore.get_cookie_args(**kwargs): a copy of config['cookie_args']
\* updated with kwargs.
GetCookieArgs(kwargs) == kwargs @@ cookie_args

\* config['cookie_args'] after get_cookie_args(**kwargs), which updates a copy.
ConfigAfter(config_args, kwargs) == config_args

\* A call on the store, and its outcome.
StoreCall(op, name, arg, out) ==
    [op |-> op, name |-> name, arg |-> arg, max_age |-> None, at |-> clock, out |-> out]

\* tipfy.REQUIRED_VALUE: the default of a configuration key that has to be set.
REQUIRED_VALUE == << "REQUIRED_VALUE", 0 >>

\* app.get_config('tipfy.sessions'), the configuration provider: it fails
\* where the required secret_key is not set.
GetConfig(configured_key) ==
    IF configured_key = REQUIRED_VALUE THEN Outcome("KeyError", None, "")
    ELSE Returns(configured_key)

\* A mutant of SessionStore.__init__: the configuration is not asked for
\* when the store is constructed.
SessionStoreInitLazily(configured_key) == Returns(configured_key)

\* SessionStore.__init__(app, request): self.config = app.get_config(__name__).
SessionStoreInit(configured_key) == GetConfig(configured_key)

\* The request asks for its session store: SessionStore.factory constructs it.
Construct ==
    /\ ~built
    /\ built' = (SessionStoreInit(secret_key).raised = "")
    /\ call' = StoreCall("SessionStore", << >>, None,
                         Outcome(SessionStoreInit(secret_key).raised, None, ""))
    /\ NoResponse
    /\ UNCHANGED << request, clock, session_max_age, secret_key, cookie_args, origin,
                    sessionVars, cookieVars, heap, flashlog, compared, handler >>

\* key or config['cookie_name']
KeyOr(key) == IF key = << >> THEN CookieName ELSE key

\* backend or self.default_backend
BackendOr(backend) == IF backend = "" THEN DefaultBackend ELSE backend

\* The sessions tracked for a backend, if any.
TrackedIn(tracked, backend) == IF backend \in DOMAIN tracked THEN tracked[backend] ELSE << >>

\* A tracked session: (value, kwargs).  The value is the id of an object.
Entry(value, kwargs) == [value |-> value, kwargs |-> kwargs]

\* cls(value or ()): the contents of the session built from what the cookie
\* holds.  (A non-empty sequence of pairs, which dict() accepts too, is not
\* among the values read here.)
DictOf(value) ==
    IF IsDict(value) THEN [ok |-> TRUE, data |-> value]
    ELSE IF value \in { None, PyNum(0), PyStr(<< >>), PyList(<< >>) }
    THEN [ok |-> TRUE, data |-> EmptyDict]
    ELSE [ok |-> FALSE, data |-> EmptyDict]

\* cls(cookie or ()), where the cookie was read with this outcome: the
\* outcome, whose value is the contents of the new session.
SessionFrom(cookie) ==
    IF cookie.raised # "" THEN cookie
    ELSE IF ~DictOf(cookie.val).ok THEN Outcome("TypeError", None, cookie.log)
    ELSE Outcome("", DictOf(cookie.val).data, cookie.log)

\* SecureCookieSession.get_session(store, name)
LoadSession(name) ==
    SessionFrom(StoreGetSecureCookie(request, session_max_age, name, DEFAULT_VALUE, clock))

\* self._sessions.setdefault(backend, {})
SetDefault(tracked, b) == (b :> TrackedIn(tracked, b)) @@ tracked

\* The session the backend has loaded with this outcome is tracked under
\* (b, k), if the load has not raised.  `loaded` tells that the backend's
\* get_session was invoked.
Track(created, objects, k, b, kwargs, loaded) ==
    IF loaded.raised # ""
    THEN [sessions |-> created, heap |-> objects, out |-> loaded, loaded |-> TRUE]
    ELSE [sessions |-> [created EXCEPT ![b] = (k :> Entry(Len(objects) + 1, kwargs)) @@ @],
          heap |-> Append(objects, NewSession(loaded.val)),
          out |-> Outcome("", Handle(Len(objects) + 1), loaded.log), loaded |-> TRUE]

\* A mutant of SessionStore.get_session: the session is loaded anew on
\* every call.
GetSessionAlwaysLoad(tracked, objects, key, backend, kwargs) ==
    IF BackendOr(backend) \notin RegisteredBackends
    THEN [sessions |-> SetDefault(tracked, BackendOr(backend)), heap |-> objects,
          out |-> Outcome("KeyError", None, ""), loaded |-> FALSE]
    ELSE Track(SetDefault(tracked, BackendOr(backend)), objects, KeyOr(key), BackendOr(backend),
               GetCookieArgs(kwargs), LoadSession(KeyOr(key)))

\* SessionStore.get_session(key, backend, **kwargs): the tracked sessions
\* and the session objects afterwards, and the outcome.
GetSessionOf(tracked, objects, key, backend, kwargs) ==
    IF KeyOr(key) \in DOMAIN TrackedIn(tracked, BackendOr(backend))
    THEN [sessions |-> tracked, heap |-> objects,
          out |-> Returns(Handle(tracked[BackendOr(backend)][KeyOr(key)].value)),
          loaded |-> FALSE]
    ELSE IF BackendOr(backend) \notin RegisteredBackends
    THEN [sessions |-> SetDefault(tracked, BackendOr(backend)), heap |-> objects,
          out |-> Outcome("KeyError", None, ""), loaded |-> FALSE]
    ELSE Track(SetDefault(tracked, BackendOr(backend)), objects, KeyOr(key), BackendOr(backend),
               GetCookieArgs(kwargs), LoadSession(KeyOr(key)))

\* SessionStore.set_session(key, value, backend, **kwargs): the tracked
\* sessions afterwards, and the outcome.  self._sessions[backend] raises
\* KeyError where no get_session call has created it.
SetSessionOf(tracked, key, value, backend, kwargs) ==
    LET b == BackendOr(backend)
    IN  IF b \notin DOMAIN tracked
        THEN [sessions |-> tracked, out |-> Outcome("KeyError", None, "")]
        ELSE [sessions |-> [tracked EXCEPT ![b] = (key :> Entry(value, GetCookieArgs(kwargs))) @@ @],
              out |-> Returns(None)]

\* How often the backend's get_session was invoked for this pair.
LoadsOf(pair) == IF pair \in DOMAIN loads THEN loads[pair] ELSE 0

\* The get_session call for this pair has had this result.  Where the loads
\* are counted, at most MaxLoads of them are made for one pair.
GetSessionDone(r, pair, kwargs, counted) ==
    /\ Len(r.heap) <= MaxObjects
    /\ sessions' = r.sessions
    /\ heap' = r.heap
    /\ flashlog' = IF Len(r.heap) > Len(heap)
                   THEN Append(flashlog, NoFlashes(r.heap[Len(r.heap)].data, ""))
                   ELSE flashlog
    /\ returned' = IF r.out.raised = ""
                   THEN (pair :> [id |-> r.out.val[2], replaced |-> FALSE,
                                  again |-> pair \in DOMAIN returned /\ ~returned[pair].replaced,
                                  loaded |-> r.loaded])
                        @@ returned
                   ELSE returned
    /\ options' = IF r.loaded /\ r.out.raised = "" THEN (pair :> kwargs) @@ options ELSE options
    /\ counted /\ r.loaded => LoadsOf(pair) < MaxLoads
    /\ loads' = IF counted /\ r.loaded THEN (pair :> LoadsOf(pair) + 1) @@ loads ELSE loads
    /\ cookie_args' = IF pair[2] \in DOMAIN TrackedIn(sessions, pair[1]) THEN cookie_args
                      ELSE ConfigAfter(cookie_args, kwargs)
    /\ call' = StoreCall("get_session", pair[2], << "backend", pair[1] >>, r.out)
    /\ NoResponse
    /\ UNCHANGED << argsVars, cookieVars >>

\* A handler calls store.get_session(key, backend, **kwargs), and the
\* calls of the backend's get_session are counted.
GetSessionCounted(key, backend, kwargs) ==
    GetSessionDone(GetSessionOf(sessions, heap, key, backend, kwargs),
                   << BackendOr(backend), KeyOr(key) >>, kwargs, TRUE)

\* A handler calls store.get_session(key, backend, **kwargs).
GetSession(key, backend, kwargs) ==
    GetSessionDone(GetSessionOf(sessions, heap, key, backend, kwargs),
                   << BackendOr(backend), KeyOr(key) >>, kwargs, FALSE)

\* A handler calls store.set_session(key, value, backend, **kwargs), where
\* value is a session object it holds (id <= Len(heap)) or one it has just
\* constructed, SecureCookieSession().
SetSession(key, id, backend, kwargs) ==
    LET r == SetSessionOf(sessions, key, id, backend, kwargs)
        pair == << BackendOr(backend), key >>
    IN  /\ id <= MaxObjects
        /\ sessions' = r.sessions
        /\ heap' = IF id > Len(heap) THEN Append(heap, NewSession(EmptyDict)) ELSE heap
        /\ flashlog' = IF id > Len(heap) THEN Append(flashlog, NoFlashes(EmptyDict, ""))
                       ELSE flashlog
        /\ returned' = IF r.out.raised = "" /\ pair \in DOMAIN returned
                       THEN [returned EXCEPT ![pair] = [id |-> @.id, replaced |-> TRUE,
                                                        again |-> FALSE, loaded |-> FALSE]]
                       ELSE returned
        /\ options' = IF r.out.raised = "" THEN (pair :> kwargs) @@ options ELSE options
        /\ loads' = loads
        /\ cookie_args' = ConfigAfter(cookie_args, kwargs)
        /\ call' = StoreCall("set_session", key, << "value", pair[1], id >>, r.out)
        /\ NoResponse
        /\ UNCHANGED << argsVars, cookieVars >>

\* SessionStore.set_cookie(key, value, **kwargs): self._cookies afterwards.
SetCookieOf(staged, key, value, kwargs) ==
    (key :> Entry(value, GetCookieArgs(kwargs))) @@ staged

\* SessionStore.delete_cookie(key, **kwargs): self._cookies afterwards.
DeleteCookieOf(staged, key, kwargs) ==
    (key :> Entry(None, GetCookieArgs(kwargs))) @@ staged

\* A mutant of SessionStore.unset_cookie: the key is staged for deletion.
UnsetCookieAsDelete(staged, key) ==
    (key :> Entry(None, DefaultCookieArgs)) @@ staged

\* SessionStore.unset_cookie(key): self._cookies afterwards.
UnsetCookieOf(staged, key) ==
    IF DOMAIN staged \ { key } = { } THEN << >>
    ELSE [k \in DOMAIN staged \ { key } |-> staged[k]]

\* A mutant of SessionStore.set_cookie: the cookie is set on the response
\* at once.
SetCookieWritesAtOnce(key, value, kwargs) ==
    << [op |-> "set_cookie", key |-> key, value |-> value, kwargs |-> GetCookieArgs(kwargs)] >>

\* SessionStore.set_cookie(key, value, **kwargs): the calls it makes on a
\* response.  It is given none.
SetCookieWrites(key, value, kwargs) == << >>

\* A handler calls store.set_cookie(key, value, **kwargs).
SetCookie(key, value, kwargs) ==
    /\ cookies' = SetCookieOf(cookies, key, value, kwargs)
    /\ staging' = (key :> [op |-> "set_cookie", value |-> value, kwargs |-> kwargs,
                            cancelled |-> FALSE]) @@ staging
    /\ cookie_args' = ConfigAfter(cookie_args, kwargs)
    /\ call' = StoreCall("set_cookie", key, value, Returns(None))
    /\ response' = SetCookieWrites(key, value, kwargs)
    /\ emitted' = [i \in 1..Len(response') |-> << "_cookies", key >>]
    /\ saves' = 0
    /\ UNCHANGED << argsVars, sessionVars, heap, flashlog >>

\* A handler calls store.delete_cookie(key, **kwargs).
DeleteCookie(key, kwargs) ==
    /\ cookies' = DeleteCookieOf(cookies, key, kwargs)
    /\ staging' = (key :> [op |-> "delete_cookie", value |-> None, kwargs |-> kwargs,
                            cancelled |-> FALSE]) @@ staging
    /\ cookie_args' = ConfigAfter(cookie_args, kwargs)
    /\ call' = StoreCall("delete_cookie", key, None, Returns(None))
    /\ NoResponse
    /\ UNCHANGED << argsVars, sessionVars, heap, flashlog >>

\* A handler calls store.unset_cookie(key).
UnsetCookie(key) ==
    /\ cookies' = UnsetCookieOf(cookies, key)
    /\ staging' = (key :> [op |-> "unset_cookie", value |-> None, kwargs |-> NoKwargs,
                            cancelled |-> key \in DOMAIN cookies]) @@ staging
    /\ call' = StoreCall("unset_cookie", key, None, Returns(None))
    /\ NoResponse
    /\ UNCHANGED << requestVars, sessionVars, heap, flashlog >>

\* response.delete_cookie(key, path=path, domain=domain)
DeleteCookieOp(key, path, domain) ==
    [op |-> "delete_cookie", key |-> key, value |-> None,
     kwargs |-> [path |-> path, domain |-> domain]]

\* response.set_cookie(key, value, **kwargs)
SetCookieOp(key, value, kwargs) ==
    [op |-> "set_cookie", key |-> key, value |-> value, kwargs |-> kwargs]

\* A call on the response and what save makes it for: a staged cookie,
\* << "_cookies", key >>, or a tracked session, << backend, key >>.
Emit(op, for) == [call |-> op, for |-> for]

\* SecureCookieStore.set_cookie(response, name, value, **kwargs) at clock
\* reading t: the call it makes on the response.
SecureSetCookie(name, value, kwargs, t) ==
    SetCookieOp(name, PyStr(GetSignedValue(SecretKey, name, value, t)), kwargs)

\* SessionStore.set_secure_cookie(response, name, value, **kwargs): the
\* calls it makes on the response, and the outcome.
SetSecureCookieOf(name, value, kwargs, t) ==
    IF ~IsDict(value) THEN [ops |-> << >>, out |-> Outcome("AssertionError", None, "")]
    ELSE [ops |-> << SecureSetCookie(name, value, GetCookieArgs(kwargs), t) >>,
          out |-> Returns(None)]

\* A mutant of SecureCookieSession.save_session: the cookie is written
\* whether the session is modified or not.
SaveSessionAlways(session, name, kwargs, t) ==
    SetSecureCookieOf(name, session.data, kwargs, t).ops

\* SecureCookieSession.save_session(response, store, name, **kwargs): the
\* calls it makes on the response.
SaveSession(session, name, kwargs, t) ==
    IF ~session.modified THEN << >>
    ELSE SetSecureCookieOf(name, session.data, kwargs, t).ops

\* A handler calls store.set_secure_cookie(response, name, value, **kwargs)
\* with a response on which no cookie call was made yet.
SetSecureCookie(name, value, kwargs) ==
    /\ response' = SetSecureCookieOf(name, value, kwargs, clock).ops
    /\ emitted' = [i \in 1..Len(response') |-> << "set_secure_cookie", name >>]
    /\ saves' = 0
    /\ call' = StoreCall("set_secure_cookie", name, value,
                         SetSecureCookieOf(name, value, kwargs, clock).out)
    /\ cookie_args' = IF IsDict(value) THEN ConfigAfter(cookie_args, kwargs) ELSE cookie_args
    /\ UNCHANGED << argsVars, sessionVars, cookieVars, heap, flashlog >>

\* The orders in which a dictionary with these keys may be iterated.
Orders(keys) ==
    { order \in [1..Cardinality(keys) -> keys] :
        \A k \in keys : \E i \in 1..Cardinality(keys) : order[i] = k }

RECURSIVE PairOrders(_, _)
\* The orders in which save may visit the tracked sessions, backend by
\* backend in the order given: sequences of << backend, key >>.
PairOrders(tracked, backends) ==
    IF backends = << >> THEN { << >> }
    ELSE { [i \in 1..Len(keys) |-> << Head(backends), keys[i] >>] \o rest :
             keys \in Orders(DOMAIN tracked[Head(backends)]),
             rest \in PairOrders(tracked, Tail(backends)) }

SessionOrders(tracked) ==
    UNION { PairOrders(tracked, backends) : backends \in Orders(DOMAIN tracked) }

\* The first loop of SessionStore.save, over self._cookies in this order.
SaveCookies(staged, order) ==
    [i \in 1..Len(order) |->
        LET key == order[i]
            value == staged[key].value
            kwargs == staged[key].kwargs
        IN  Emit(IF value = None
                 THEN DeleteCookieOp(key,
                          IF "path" \in DOMAIN kwargs THEN kwargs.path ELSE PyStr(<< "/" >>),
                          IF "domain" \in DOMAIN kwargs THEN kwargs.domain ELSE None)
                 ELSE SetCookieOp(key, value, kwargs),
                 << "_cookies", key >>)]

RECURSIVE SaveSessions(_, _, _, _)
\* The second loop of SessionStore.save, over self._sessions in this order.
SaveSessions(tracked, objects, order, t) ==
    IF order = << >> THEN << >>
    ELSE LET pair == Head(order)
             entry == tracked[pair[1]][pair[2]]
             ops == SaveSession(objects[entry.value], pair[2], entry.kwargs, t)
         IN  [i \in 1..Len(ops) |-> Emit(ops[i], pair)]
             \o SaveSessions(tracked, objects, Tail(order), t)

\* A mutant of SessionStore.save: the sessions are saved before the cookies.
SaveSessionsFirst(staged, tracked, objects, cookie_order, session_order, t) ==
    SaveSessions(tracked, objects, session_order, t) \o SaveCookies(staged, cookie_order)

\* SessionStore.save(response) at clock reading t: the calls it makes on
\* the response, where the dictionaries are iterated in these orders.
SaveOf(staged, tracked, objects, cookie_order, session_order, t) ==
    SaveCookies(staged, cookie_order) \o SaveSessions(tracked, objects, session_order, t)

RECURSIVE ConfigAfterSave(_, _, _, _)
\* config['cookie_args'] after the set_secure_cookie calls of the sessions
\* save finds modified.
ConfigAfterSave(config_args, tracked, objects, order) ==
    IF order = << >> THEN config_args
    ELSE LET entry == tracked[Head(order)[1]][Head(order)[2]]
         IN  ConfigAfterSave(IF objects[entry.value].modified
                             THEN ConfigAfter(config_args, entry.kwargs) ELSE config_args,
                             tracked, objects, Tail(order))

\* The middleware, or a handler, calls store.save(response) with a response
\* on which no cookie call was made yet.
\* A mutant of SessionStore.save: the cookies written are staged no more.
StagedConsumed(staged) == << >>

\* SessionStore.save(response): self._cookies afterwards.  The loop of
\* lines 371-376 reads it only.
StagedAfterSave(staged) == staged

\* store.save(response) is called with a response on which no cookie call
\* was made yet, as the call in a row of at most `limit` such calls.
SaveUpTo(limit) ==
    \E cookie_order \in Orders(DOMAIN cookies), session_order \in SessionOrders(sessions) :
        LET made == SaveOf(cookies, sessions, heap, cookie_order, session_order, clock)
        IN  /\ saves < limit
            /\ saves' = saves + 1
            /\ response' = [i \in 1..Len(made) |-> made[i].call]
            /\ emitted' = [i \in 1..Len(made) |-> made[i].for]
            /\ cookie_args' = ConfigAfterSave(cookie_args, sessions, heap, session_order)
            /\ call' = StoreCall("save", << >>, None, Returns(None))
            /\ cookies' = StagedAfterSave(cookies)
            /\ UNCHANGED << argsVars, sessionVars, staging, heap, flashlog >>

\* SessionMiddleware.after_dispatch: the store is saved, once, to the
\* response of the handler.
Save == SaveUpTo(1)

RECURSIVE Jar(_, _)
\* The cookies the client holds after a response with these calls, where it
\* held `jar` before.
Jar(jar, ops) ==
    IF ops = << >> THEN jar
    ELSE LET op == Head(ops)
             others == DOMAIN jar \ { op.key }
             rest == IF others = { } THEN << >> ELSE [k \in others |-> jar[k]]
         IN  Jar(IF op.op = "set_cookie" THEN (op.key :> op.value[2]) @@ rest ELSE rest, Tail(ops))

\* The response of save reaches the client, which sends its cookies with
\* the next request; a store is constructed for that request.
NextRequest ==
    /\ call.op = "save"
    /\ request' = Jar(request, response)
    /\ origin' = IF \E i \in 1..Len(response) : emitted[i] = << DefaultBackend, CookieName >>
                 THEN [kind |-> "saved", name |-> CookieName,
                       value |-> heap[sessions[DefaultBackend][CookieName].value].data,
                       ts |-> UnixTime(call.at)]
                 ELSE IF Jar(request, response) = request THEN origin
                 ELSE [kind |-> "set", name |-> CookieName, value |-> EmptyDict,
                       ts |-> UnixTime(call.at)]
    /\ sessions' = << >>
    /\ returned' = << >>
    /\ options' = << >>
    /\ loads' = << >>
    /\ cookies' = << >>
    /\ staging' = << >>
    /\ heap' = << >>
    /\ flashlog' = << >>
    /\ call' = NoCall
    /\ handler' = NoHandler
    /\ NoResponse
    /\ UNCHANGED << clock, configVars, compared >>

\* ----------------------------------------------------------- MessagesMixin

\* The key of the messages in the session, '_messages'.
MessagesKey == PyStr(<< "_", "m", "e", "s", "s", "a", "g", "e", "s" >>)

\* {'level': level, 'title': None, 'body': body, 'life': None}
Message(level, body) ==
    PyDict({ << PyStr(<< "l", "e", "v", "e", "l" >>), level >>,
             << PyStr(<< "t", "i", "t", "l", "e" >>), None >>,
             << PyStr(<< "b", "o", "d", "y" >>), body >>,
             << PyStr(<< "l", "i", "f", "e" >>), None >> })

\* MessagesMixin.messages, a cached property: the first access takes the
\* messages out of the session with get_flashes(key='_messages').
MessagesOf(h, session) ==
    IF h.cached THEN [handler |-> h, session |-> session]
    ELSE [handler |-> [h EXCEPT !.cached = TRUE,
                                !.messages = GetFlashesOf(session, MessagesKey).out.val[2]],
          session |-> GetFlashesOf(session, MessagesKey).session]

\* MessagesMixin.set_message(level, body, flash=flash): the handler and its
\* session afterwards.
SetMessageOf(h, session, message, flash) ==
    IF flash
    THEN [handler |-> [h EXCEPT !.flashed = Append(@, message)],
          session |-> AddFlashOf(session, message, MessagesKey).session]
    ELSE [handler |-> [MessagesOf(h, session).handler EXCEPT !.messages = Append(@, message)],
          session |-> MessagesOf(h, session).session]

\* A call of the mixin has used self.session, which the first access gets
\* from store.get_session() with result r, and has left the handler and the
\* session as in `after`.
MessagesCall(op, arg, r, after) ==
    /\ r.out.raised = ""
    /\ Len(r.heap) <= MaxObjects
    /\ sessions' = r.sessions
    /\ heap' = [r.heap EXCEPT ![r.out.val[2]] = after.session]
    /\ handler' = after.handler
    /\ flashlog' = IF Len(r.heap) > Len(heap)
                   THEN Append(flashlog, NoFlashes(after.session.data, op))
                   ELSE [flashlog EXCEPT ![r.out.val[2]] = NoFlashes(after.session.data, op)]
    /\ returned' = IF r.loaded
                   THEN (<< DefaultBackend, CookieName >> :>
                            [id |-> r.out.val[2], replaced |-> FALSE, again |-> FALSE,
                             loaded |-> TRUE]) @@ returned
                   ELSE returned
    /\ options' = IF r.loaded THEN (<< DefaultBackend, CookieName >> :> NoKwargs) @@ options
                  ELSE options
    /\ cookie_args' = IF r.loaded THEN ConfigAfter(cookie_args, NoKwargs) ELSE cookie_args
    /\ call' = StoreCall(op, << >>, arg, Returns(PyList(after.handler.messages)))
    /\ NoResponse
    /\ UNCHANGED << request, clock, settingVars, origin, compared, loads, cookieVars >>

\* The handler, or its template, reads handler.messages.
Messages ==
    MessagesCall("messages", None, GetSessionOf(sessions, heap, << >>, "", NoKwargs),
                 MessagesOf(handler,
                            GetSessionOf(sessions, heap, << >>, "", NoKwargs).heap[
                                GetSessionOf(sessions, heap, << >>, "", NoKwargs).out.val[2]]))

\* The handler calls self.set_message(level, body, flash=flash).
SetMessage(level, body, flash) ==
    /\ Len(handler.flashed) + Len(handler.messages) < MaxMessages
    /\ MessagesCall("set_message", Message(level, body),
                    GetSessionOf(sessions, heap, << >>, "", NoKwargs),
                    SetMessageOf(handler,
                                 GetSessionOf(sessions, heap, << >>, "", NoKwargs).heap[
                                     GetSessionOf(sessions, heap, << >>, "", NoKwargs).out.val[2]],
                                 Message(level, body), flash))

\* ------------------------------------------------- the codec's inputs

\* A token signed with `key`: the fields payload and timestamp as given.
TokenOf(key, name, payload, timestamp) ==
    Join(<< "|" >>, << payload, timestamp, GetSignature(key, << name, payload, timestamp >>) >>)

U42 == PyDict({ << PyStr(<< "u" >>), PyNum(42) >> })

\* The values of the tokens a request arrives with.
SignedValues == { EmptyDict, U42 }

\* The values handed to get_signed_value.
RoundTripValues ==
    { EmptyDict,
      U42,
      PyDict({ << PyStr(<< "_", "f", "l", "a", "s", "h" >>), PyList(<< PyStr(<< "a" >>), PyStr(<< "|" >>) >>) >>,
               << PyStr(<< "n" >>), None >> }),
      PyDict({ << PyStr(<< "d" >>), PyDict({ << PyStr(<< "k" >>), PyList(<< >>) >> }) >> }),
      PyDict({ << PyNum(1), PyStr(<< "a" >>) >> }),
      PyDict({ << PyStr(<< "t" >>), PyTuple(<< PyNum(1), PyNum(2) >>) >> }) }

\* The tokens a request may carry were signed in the second the request
\* starts in or in the one before.
BaseTokens ==
    [ name : CookieNames, value : SignedValues, ts : { StartSecond - 1, StartSecond } ]

\* The tokens that are tampered with.
TamperedTokens ==
    { [name |-> CookieName, value |-> U42, ts |-> StartSecond - 1],
      [name |-> Foo, value |-> EmptyDict, ts |-> StartSecond] }

OtherName(name) == IF name = CookieName THEN Foo ELSE CookieName

OtherValue(value) == IF value = EmptyDict THEN U42 ELSE EmptyDict

\* Another hexadecimal digit than c.
FlipChar(c) == IF c = "0" THEN "1" ELSE "0"

\* The three fields of the token of b, signed with `key`.
FieldsOf(key, b) ==
    << Encode(b.value),
       IntToStr(b.ts),
       GetSignature(key, << b.name, Encode(b.value), IntToStr(b.ts) >>) >>

Case(kind, b, presented_as, token) ==
    [cookies |-> (presented_as :> token),
     origin |-> [kind |-> kind, name |-> b.name, value |-> b.value, ts |-> b.ts]]

\* Timestamp fields int() does not accept, and payload fields that are not
\* base64 or not JSON.
BadTimestamps == { << "a", "b", "c" >>, << >>, << "1", ".", "5" >> }

BadPayloads == { << "e" >>, << "e", "A", "=", "=" >>, << "e", "w", "=", "=" >> }

CodecCases ==
    LET sig(b) == FieldsOf(SecretKey, b)[3]
        tok(b) == Join(<< "|" >>, FieldsOf(SecretKey, b))
    IN
    { Case("valid", b, b.name, tok(b)) : b \in BaseTokens }
    \cup { Case("other_secret", b, b.name, Join(<< "|" >>, FieldsOf(OtherKey, b))) : b \in TamperedTokens }
    \cup UNION { { Case("signature_altered", b, b.name,
                        Join(<< "|" >>, << Encode(b.value), IntToStr(b.ts),
                                           [sig(b) EXCEPT ![i] = FlipChar(@)] >>))
                   : i \in 1..Len(sig(b)) }
                 : b \in { c \in TamperedTokens : c.name = CookieName } }
    \cup { Case("signature_altered", b, b.name,
                Join(<< "|" >>, << Encode(b.value), IntToStr(b.ts), SubSeq(sig(b), 1, Len(sig(b)) - 1) >>))
           : b \in TamperedTokens }
    \cup { Case("payload_altered", b, b.name,
                Join(<< "|" >>, << Encode(OtherValue(b.value)), IntToStr(b.ts), sig(b) >>))
           : b \in TamperedTokens }
    \cup { Case("timestamp_altered", b, b.name,
                Join(<< "|" >>, << Encode(b.value), IntToStr(b.ts + 1), sig(b) >>))
           : b \in TamperedTokens }
    \cup { Case("name_altered", b, OtherName(b.name), tok(b)) : b \in TamperedTokens }
    \cup { Case("one_field", b, b.name, Encode(b.value)) : b \in TamperedTokens }
    \cup { Case("two_fields", b, b.name, Join(<< "|" >>, << Encode(b.value), IntToStr(b.ts) >>))
           : b \in TamperedTokens }
    \cup { Case("four_fields", b, b.name, tok(b) \o << "|", "x" >>) : b \in TamperedTokens }
    \cup { Case("four_fields", b, b.name, << "x", "|" >> \o tok(b)) : b \in TamperedTokens }
    \cup { Case("empty", b, b.name, << >>) : b \in TamperedTokens }
    \cup { [cookies |-> << >>, origin |-> [kind |-> "missing", name |-> b.name, value |-> b.value, ts |-> b.ts]]
           : b \in TamperedTokens }
    \cup { Case("signed_bad_timestamp", b, b.name, TokenOf(SecretKey, b.name, Encode(b.value), t))
           : b \in TamperedTokens, t \in BadTimestamps }
    \cup { Case("signed_bad_payload", b, b.name, TokenOf(SecretKey, b.name, p, IntToStr(b.ts)))
           : b \in TamperedTokens, p \in BadPayloads }

MaxAges == { None } \cup { PyNum(m) : m \in 0..MaxAge }

EmptyStore ==
    /\ sessions = << >>
    /\ cookies = << >>
    /\ heap = << >>
    /\ flashlog = << >>
    /\ returned = << >>
    /\ options = << >>
    /\ loads = << >>
    /\ cookie_args = DefaultCookieArgs
    /\ staging = << >>
    /\ response = << >>
    /\ emitted = << >>
    /\ saves = 0
    /\ compared = << >>
    /\ handler = NoHandler
    /\ call = NoCall
    /\ secret_key = PyStr(SecretKey)
    /\ built = TRUE

\* A request arrives with one cookie; the store is built and nothing has
\* been called yet.
InitCodec ==
    /\ \E c \in CodecCases : request = c.cookies /\ origin = c.origin
    /\ clock = StartSecond * TicksPerSecond
    /\ session_max_age \in { None, PyNum(1) }
    /\ EmptyStore

NextCodec ==
    \/ \E name \in CookieNames, max_age \in MaxAges \cup { DEFAULT_VALUE } : GetSecureCookie(name, max_age)
    \/ Tick

\* The secure cookie codec on the cookies a request may carry.
SpecCodec == InitCodec /\ [][NextCodec]_vars

\* A request without cookies.
InitRoundTrip ==
    /\ request = << >>
    /\ origin = [kind |-> "missing", name |-> CookieName, value |-> EmptyDict, ts |-> StartSecond]
    /\ clock = StartSecond * TicksPerSecond
    /\ session_max_age \in { None, PyNum(1) }
    /\ EmptyStore

NextRoundTrip ==
    \/ \E name \in CookieNames, value \in RoundTripValues : SignValue(name, value)
    \/ Present
    \/ \E name \in CookieNames, max_age \in MaxAges \cup { DEFAULT_VALUE } : GetSecureCookie(name, max_age)
    \/ Tick

\* Values are signed and the tokens come back as request cookies.
SpecRoundTrip == InitRoundTrip /\ [][NextRoundTrip]_vars

\* The contents of the session a handler works on.
InitialSessionData ==
    { EmptyDict,
      PyDict({ << UidKey, PyNum(42) >> }),
      PyDict({ << FlashKey, PyList(<< PyStr(<< "x" >>) >>) >> }) }

FlashValues == { PyStr(<< "a" >>), PyStr(<< "b" >>) }

\* One session object, as SecureCookieSession.get_session builds it.
InitSession ==
    /\ request = << >>
    /\ origin = [kind |-> "missing", name |-> CookieName, value |-> EmptyDict, ts |-> StartSecond]
    /\ clock = StartSecond * TicksPerSecond
    /\ session_max_age = None
    /\ sessions = << >>
    /\ returned = << >>
    /\ options = << >>
    /\ loads = << >>
    /\ cookie_args = DefaultCookieArgs
    /\ cookies = << >>
    /\ staging = << >>
    /\ response = << >>
    /\ emitted = << >>
    /\ saves = 0
    /\ compared = << >>
    /\ handler = NoHandler
    /\ call = NoCall
    /\ secret_key = PyStr(SecretKey)
    /\ built = TRUE
    /\ \E data \in InitialSessionData :
        /\ heap = << NewSession(data) >>
        /\ flashlog = << NoFlashes(data, "") >>

NextSession ==
    \/ \E value \in FlashValues : AddFlash(1, value, FlashKey)
    \/ GetFlashes(1, FlashKey)
    \/ \E key \in { UidKey, FlashKey } : SessionSetItem(1, key, PyNum(42))
    \/ \E key \in { UidKey, FlashKey } : SessionDelItem(1, key)

\* The operations of a session dictionary.
SpecSession == InitSession /\ [][NextSession]_vars

\* The cookies a request to the store carries: none, a session this
\* application signed a second ago, or one whose timestamp is no number.
StoreRequests ==
    { << >>,
      CookieName :> TokenOf(SecretKey, CookieName, Encode(PyDict({ << UidKey, PyNum(42) >> })),
                            IntToStr(StartSecond - 1)),
      CookieName :> TokenOf(SecretKey, CookieName, Encode(EmptyDict), << "a", "b", "c" >>) }

PlainValue == PyStr(<< "v", "1" >>)

\* A request arrives and the store is built for it, in an application
\* configured with a session_max_age.
Init ==
    /\ request \in StoreRequests
    /\ origin = [kind |-> "request", name |-> CookieName, value |-> EmptyDict, ts |-> StartSecond]
    /\ clock = StartSecond * TicksPerSecond
    /\ session_max_age = PyNum(MaxAge)
    /\ EmptyStore

Next ==
    \/ \E key \in { << >>, Foo } : GetSession(key, "", NoKwargs)
    \/ \E key \in CookieNames, id \in 1..(Len(heap) + 1) :
        SetSession(key, id, DefaultBackend, NoKwargs)
    \/ \E id \in 1..Len(heap) : SessionSetItem(id, UidKey, PyNum(7))
    \/ SetCookie(Foo, PlainValue, NoKwargs)
    \/ DeleteCookie(Foo, NoKwargs)
    \/ UnsetCookie(Foo)
    \/ Save

\* The session store during one request.
Spec == Init /\ [][Next]_vars

\* The keyword arguments a handler stages a cookie with.
CookieKwargs == { NoKwargs, [path |-> PyStr(<< "/", "a" >>)] }

PlainValues == { PlainValue, PyStr(<< "v", "2" >>) }

NextCookies ==
    \/ \E key \in CookieNames, value \in PlainValues, kwargs \in CookieKwargs :
        SetCookie(key, value, kwargs)
    \/ \E key \in CookieNames, kwargs \in CookieKwargs : DeleteCookie(key, kwargs)
    \/ \E key \in CookieNames : UnsetCookie(key)
    \/ \E backend \in { "", Memcache } : GetSession(<< >>, backend, NoKwargs)
    \/ \E id \in 1..Len(heap) : SessionSetItem(id, UidKey, PyNum(7))
    \/ Save

\* The staging of plain cookies during one request.
SpecCookies == Init /\ [][NextCookies]_vars

\* A request arrives at an application that has set the secret key, or
\* has not; no store is constructed yet.
InitConfig ==
    /\ request \in StoreRequests
    /\ origin = [kind |-> "request", name |-> CookieName, value |-> EmptyDict, ts |-> StartSecond]
    /\ clock = StartSecond * TicksPerSecond
    /\ session_max_age = None
    /\ secret_key \in { REQUIRED_VALUE, PyStr(SecretKey) }
    /\ built = FALSE
    /\ sessions = << >>
    /\ cookies = << >>
    /\ heap = << >>
    /\ flashlog = << >>
    /\ returned = << >>
    /\ options = << >>
    /\ loads = << >>
    /\ cookie_args = DefaultCookieArgs
    /\ staging = << >>
    /\ response = << >>
    /\ emitted = << >>
    /\ saves = 0
    /\ compared = << >>
    /\ handler = NoHandler
    /\ call = NoCall

NextConfig ==
    \/ Construct
    \/ built /\ \E name \in CookieNames, max_age \in { DEFAULT_VALUE, PyNum(0) } :
        GetSecureCookie(name, max_age)
    \/ built /\ \E key \in { << >>, Foo } : GetSession(key, "", NoKwargs)
    \/ built /\ \E name \in CookieNames, value \in SignedValues :
        SetSecureCookie(name, value, NoKwargs)
    \/ Tick

\* The construction of the store and the first calls on it.
SpecConfig == InitConfig /\ [][NextConfig]_vars

TupleKey == PyStr(<< "t" >>)

\* The first request of a client that holds no cookie.
InitRequests ==
    /\ request = << >>
    /\ origin = [kind |-> "missing", name |-> CookieName, value |-> EmptyDict, ts |-> StartSecond]
    /\ clock = StartSecond * TicksPerSecond
    /\ session_max_age \in { None, PyNum(0) }
    /\ EmptyStore

NextRequests ==
    \/ GetSession(<< >>, "", NoKwargs)
    \/ \E id \in 1..Len(heap) : SessionSetItem(id, UidKey, PyNum(7))
    \/ \E id \in 1..Len(heap) : SessionSetItem(id, TupleKey, PyTuple(<< PyNum(1) >>))
    \/ \E id \in 1..Len(heap) : SessionDelItem(id, UidKey)
    \/ Save
    \/ NextRequest
    \/ Tick

\* The requests of one client, one after the other.
SpecRequests == InitRequests /\ [][NextRequests]_vars

\* The keyword arguments a handler gives for a session or a cookie.
OptionKwargs == { NoKwargs, [path |-> PyStr(<< "/", "a" >>)], [domain |-> PyStr(<< "d" >>)] }

NextOptions ==
    \/ \E kwargs \in OptionKwargs : GetSession(<< >>, "", kwargs)
    \/ \E id \in 1..(Len(heap) + 1), kwargs \in OptionKwargs :
        SetSession(CookieName, id, "", kwargs)
    \/ \E id \in 1..Len(heap) : SessionSetItem(id, UidKey, PyNum(7))
    \/ \E kwargs \in OptionKwargs : SetCookie(Foo, PlainValue, kwargs)
    \/ \E kwargs \in OptionKwargs : DeleteCookie(Foo, kwargs)
    \/ Save

\* The options sessions and cookies are tracked and committed with.
SpecOptions == Init /\ [][NextOptions]_vars

\* The cookies of the requests whose session is changed: none, a session
\* holding a value, a session holding unread flashes.
MutationRequests ==
    { << >>,
      CookieName :> TokenOf(SecretKey, CookieName, Encode(PyDict({ << UidKey, PyNum(42) >> })),
                            IntToStr(StartSecond - 1)),
      CookieName :> TokenOf(SecretKey, CookieName,
                            Encode(PyDict({ << FlashKey, PyList(<< PyStr(<< "x" >>) >>) >> })),
                            IntToStr(StartSecond - 1)) }

InitMutations ==
    /\ request \in MutationRequests
    /\ origin = [kind |-> "request", name |-> CookieName, value |-> EmptyDict, ts |-> StartSecond]
    /\ clock = StartSecond * TicksPerSecond
    /\ session_max_age = None
    /\ EmptyStore

NextMutations ==
    \/ GetSession(<< >>, "", NoKwargs)
    \/ \E id \in 1..Len(heap) : AddFlash(id, PyStr(<< "a" >>), FlashKey)
    \/ \E id \in 1..Len(heap) : GetFlashes(id, FlashKey)
    \/ \E id \in 1..Len(heap) : SessionSetItem(id, UidKey, PyNum(7))
    \/ \E id \in 1..Len(heap) : SessionDelItem(id, UidKey)
    \/ \E id \in 1..Len(heap), key \in { UidKey, FlashKey } : SessionPop(id, key)
    \/ Save

\* A handler changes the session of the request, and the store is saved.
SpecMutations == InitMutations /\ [][NextMutations]_vars

NextLoads ==
    \/ \E key \in { << >>, CookieName }, backend \in { "", DefaultBackend } :
        GetSessionCounted(key, backend, NoKwargs)
    \/ \E id \in 1..(Len(heap) + 1) : SetSession(CookieName, id, "", NoKwargs)
    \/ \E id \in 1..Len(heap) : SessionSetItem(id, UidKey, PyNum(7))
    \/ Save
    \/ Tick

\* The session of the request is asked for under every spelling of its
\* pair.
SpecLoads == Init /\ [][NextLoads]_vars

NextCommit ==
    \/ GetSession(<< >>, "", NoKwargs)
    \/ \E id \in 1..Len(heap) : SetSession(CookieName, id, "", NoKwargs)
    \/ SetCookie(Foo, PlainValue, NoKwargs)
    \/ DeleteCookie(Foo, NoKwargs)
    \/ UnsetCookie(Foo)
    \/ GetSecureCookie(CookieName, DEFAULT_VALUE)
    \/ \E id \in 1..Len(heap) : SessionSetItem(id, UidKey, PyNum(7))
    \/ \E id \in 1..Len(heap) : AddFlash(id, PyStr(<< "a" >>), FlashKey)
    \/ \E id \in 1..Len(heap) : GetFlashes(id, FlashKey)
    \/ SetSecureCookie(Foo, PyDict({ << UidKey, PyNum(42) >> }), NoKwargs)
    \/ Save

\* The handling of one request and the commit to its response.
SpecCommit == InitMutations /\ [][NextCommit]_vars

NextSaves ==
    \/ GetSession(<< >>, "", NoKwargs)
    \/ \E id \in 1..Len(heap) : SessionSetItem(id, UidKey, PyNum(7))
    \/ SetCookie(Foo, PlainValue, NoKwargs)
    \/ DeleteCookie(Foo, NoKwargs)
    \/ SaveUpTo(MaxSaves)
    \/ Tick

\* The store is saved, more than once, while time passes.
SpecSaves == InitMutations /\ [][NextSaves]_vars

NextCompare ==
    \E a, b \in UNION { [1..n -> { "a", "b" }] : n \in 0..MaxLen } : CheckSignatureCall(a, b)

\* Signatures are compared.
SpecCompare == InitRoundTrip /\ [][NextCompare]_vars

\* The handler of a request without cookies sets messages for the next
\* request with the bodies 'a' and 'b', and one for this request with the
\* body 'c'; the store is saved.
NextMessages ==
    \/ \E body \in { << "a" >>, << "b" >> } : SetMessage(PyStr(<< "i" >>), PyStr(body), TRUE)
    \/ SetMessage(PyStr(<< "i" >>), PyStr(<< "c" >>), FALSE)
    \/ Messages
    \/ Save

\* The messages of a handler.
SpecMessages == InitMutations /\ [][NextMessages]_vars

\* ----------------------------------------------------------------- claims

\* The last call was get_secure_cookie for the name the request's token was
\* made for.
ReadOwnCookie == call.op = "get_secure_cookie" /\ call.name = origin.name

\* The ways a token is altered after it was signed, or signed by another key.
TamperedKinds ==
    { "signature_altered", "payload_altered", "timestamp_altered", "name_altered", "other_secret" }

\* C1: get_cookie returns a value for cookie name n only if the cookie has
\* three fields and the third is the MAC, under the store's secret key, of
\* (n, payload, timestamp); a token whose signature, payload, timestamp or
\* name was altered after signing, or that was signed with another secret,
\* yields None.
C1_SignatureGate ==
    call.op = "get_secure_cookie" =>
        /\ call.out.val # None =>
            /\ call.name \in DOMAIN request
            /\ LET parts == Split(request[call.name], "|")
               IN  /\ Len(parts) = 3
                   /\ parts[3] = HmacSha1Hex(SecretKey, call.name \o << "|" >> \o parts[1]
                                                         \o << "|" >> \o parts[2])
        /\ origin.kind \in TamperedKinds => call.out = Returns(None) \/ call.out = Outcome("", None, "Invalid cookie signature")

\* A token whose signature lost or changed a character was read, under the
\* name it was signed for, and the call returned None.
C1_Witness ==
    /\ ReadOwnCookie
    /\ origin.kind = "signature_altered"
    /\ Len(Split(request[call.name], "|")) = 3
    /\ call.out.val = None

\* The values JSON holds as they are: None, integers, strings, lists, and
\* dicts with string keys, of such values.
RECURSIVE JsonNative(_)
JsonNative(v) ==
    CASE v[1] \in {"None", "int", "str"} -> TRUE
      [] v[1] = "list" -> \A i \in 1..Len(v[2]) : JsonNative(v[2][i])
      [] v[1] = "dict" -> \A p \in v[2] : p[1][1] = "str" /\ JsonNative(p[2])
      [] OTHER -> FALSE

\* The token of get_signed_value(n, v) came back as the cookie n and was read
\* with no max_age.
RoundTripRead ==
    /\ ReadOwnCookie
    /\ origin.kind = "signed_here"
    /\ call.max_age = None

\* C2 as stated: for every mapping v, the token of get_signed_value(n, v)
\* presented as cookie n makes get_cookie, with no max_age, return v.
C2_RoundTripEveryMapping == RoundTripRead => call.out = Returns(origin.value)

\* C2, amended: the same for every mapping v with string keys whose values
\* are built from None, integers, strings, lists and such mappings.
C2_RoundTrip == RoundTripRead /\ JsonNative(origin.value) => call.out = Returns(origin.value)

\* A mapping holding a list with a '|' in it made the round trip.
C2_Witness ==
    /\ RoundTripRead
    /\ \E p \in origin.value[2] : p[2][1] = "list" /\ p[2][2] # << >>
    /\ call.out = Returns(origin.value)

\* C3: a correctly signed token with timestamp t read with max_age m yields
\* None exactly when t < now - m, and its value otherwise (t = now - m is
\* accepted); read with max_age None it always yields its value.
C3_Expiry ==
    ReadOwnCookie /\ origin.kind = "valid" =>
        IF call.max_age # None /\ (origin.ts + call.max_age[2]) * TicksPerSecond < call.at
        THEN call.out.raised = "" /\ call.out.val = None
        ELSE call.out = Returns(origin.value)

\* A token exactly max_age old, for a max_age that is not 0, was accepted.
C3_Witness ==
    /\ ReadOwnCookie
    /\ origin.kind = "valid"
    /\ call.max_age # None
    /\ call.max_age[2] > 0
    /\ (origin.ts + call.max_age[2]) * TicksPerSecond = call.at
    /\ call.out = Returns(origin.value)

\* C4: a cookie value that does not split on '|' into exactly 3 fields yields
\* None, whatever its fields hold.
C4_FieldCount ==
    /\ call.op = "get_secure_cookie"
    /\ call.name \in DOMAIN request
    /\ Len(Split(request[call.name], "|")) # 3
    => call.out = Returns(None)

\* A value of four fields, three of which are a correctly signed token, was
\* read and the call returned None.
C4_Witness ==
    /\ ReadOwnCookie
    /\ origin.kind = "four_fields"
    /\ Len(Split(request[call.name], "|")) = 4
    /\ call.out = Returns(None)

\* C5: get_secure_cookie never raises, whatever the cookie and max_age.
C5_NeverRaises == call.op = "get_secure_cookie" => call.out.raised = ""

\* The step is a get_flashes call on the session heap[id].
GetFlashesStep(id) ==
    /\ call'.op = "get_flashes"
    /\ call'.arg = Handle(id)
    /\ call' # call

\* What C8 says of a get_flashes(k) call on the session heap[id] that follows
\* add_flash calls or another get_flashes(k), or finds no k.
FlashSemantics(id, assuming) ==
    /\ flashlog[id].vals # << >> /\ assuming =>
        /\ call'.out = Returns(PyList(flashlog[id].vals))
        /\ ~HasKey(heap'[id].data, FlashKey)
    /\ flashlog[id].last = "get_flashes" => call'.out = Returns(PyList(<< >>))
    /\ ~HasKey(heap[id].data, FlashKey) =>
        /\ call'.out = Returns(PyList(<< >>))
        /\ heap'[id] = heap[id]

\* C8 as stated: on any session, after add_flash(v1, k) ... add_flash(vn, k),
\* get_flashes(k) returns [v1, ..., vn] and removes k; a get_flashes(k) right
\* after it returns []; and get_flashes(k) on a session without k returns []
\* and leaves the contents and the modified flag as they are.
C8_FlashesOnAnySession ==
    [][\A id \in 1..Len(heap) : GetFlashesStep(id) => FlashSemantics(id, TRUE)]_vars

\* C8, amended: the same, for add_flash calls on a session that does not
\* contain k before the first of them.
C8_Flashes ==
    [][\A id \in 1..Len(heap) : GetFlashesStep(id) => FlashSemantics(id, flashlog[id].fresh)]_vars

\* get_flashes returned two flashes in the order they were added, and the
\* key is gone.
C8_Witness ==
    /\ call.op = "get_flashes"
    /\ call.out.val[1] = "list"
    /\ Len(call.out.val[2]) = 2
    /\ call.out.val[2][1] # call.out.val[2][2]
    /\ ~HasKey(heap[call.arg[2]].data, FlashKey)
    /\ flashlog[call.arg[2]].fresh

\* The step is a get_session call for the pair that returns a session.
GetSessionStep(pair) ==
    /\ call'.op = "get_session"
    /\ call'.name = pair[2]
    /\ call'.arg = << "backend", pair[1] >>
    /\ call'.out.raised = ""
    /\ call' # call \/ returned' # returned

\* The step is a save call that writes the signed contents of the session
\* get_session returned last for the pair, if that session is modified.
SavePersists(pair) ==
    call'.op = "save" /\ heap[returned[pair].id].modified =>
        \E i \in 1..Len(response') :
            /\ emitted'[i] = pair
            /\ response'[i].op = "set_cookie"
            /\ response'[i].key = pair[2]
            /\ GetCookie(SecretKey, pair[2] :> response'[i].value[2], pair[2], None, clock)
               = Returns(heap[returned[pair].id].data)

\* C6 as stated: after any sequence of store operations, set_session among
\* them, a get_session call for a (backend, key) pair returns the session
\* object the get_session calls for that pair returned before, and save
\* persists that object's contents.
C6_SameSessionAfterAnySequence ==
    [][\A pair \in DOMAIN returned :
        /\ GetSessionStep(pair) => call'.out.val = Handle(returned[pair].id)
        /\ SavePersists(pair)]_vars

\* C6, amended: the same, for get_session calls between which no
\* set_session call was made for that pair.
C6_SameSession ==
    [][\A pair \in DOMAIN returned :
        ~returned[pair].replaced =>
            /\ GetSessionStep(pair) => call'.out.val = Handle(returned[pair].id)
            /\ SavePersists(pair)]_vars

\* get_session has returned, for the second time, a session that was
\* modified after it was returned first.
C6_Witness ==
    /\ call.op = "get_session"
    /\ call.out.raised = ""
    /\ returned[<< call.arg[2], call.name >>].again
    /\ heap[call.out.val[2]].modified
    /\ Cardinality(DOMAIN returned) = 2

\* The calls save has made on the response for the tracked session (b, k).
WritesFor(b, k) == { i \in 1..Len(response) : emitted[i] = << b, k >> }

\* C7: when save returns, the response holds a signed cookie for a tracked
\* session, one that reads back as the session's contents, if and only if
\* the session is modified; for a session that is not, nothing is written.
C7_SavedIffModified ==
    call.op = "save" =>
        \A b \in DOMAIN sessions : \A k \in DOMAIN sessions[b] :
            LET session == heap[sessions[b][k].value]
            IN  /\ Cardinality(WritesFor(b, k)) = IF session.modified THEN 1 ELSE 0
                /\ \A i \in WritesFor(b, k) :
                    /\ response[i].op = "set_cookie"
                    /\ response[i].key = k
                    /\ GetCookie(SecretKey, k :> response[i].value[2], k, None, clock)
                       = Returns(session.data)

\* save has written the cookie of a modified session and none for a session
\* loaded from the request's valid cookie and left as it was.
C7_Witness ==
    /\ call.op = "save"
    /\ DefaultBackend \in DOMAIN sessions
    /\ DOMAIN sessions[DefaultBackend] = CookieNames
    /\ ~heap[sessions[DefaultBackend][CookieName].value].modified
    /\ heap[sessions[DefaultBackend][CookieName].value].data = PyDict({ << UidKey, PyNum(42) >> })
    /\ heap[sessions[DefaultBackend][Foo].value].modified
    /\ Len(response) = 1
    /\ response[1].key = Foo

\* The calls save has made on the response for the staged cookie key.
CookieWrites(key) == { i \in 1..Len(response) : emitted[i] = << "_cookies", key >> }

\* What the staging call commits: a delete_cookie with its path and domain,
\* or a set_cookie with its value and options, the configured ones where
\* it gave none.
Committed(key, staged) ==
    IF staged.op = "delete_cookie"
    THEN DeleteCookieOp(key, GetCookieArgs(staged.kwargs).path, GetCookieArgs(staged.kwargs).domain)
    ELSE SetCookieOp(key, staged.value, GetCookieArgs(staged.kwargs))

\* C9: when save returns, it has made exactly one call on the response for
\* every staged cookie key, delete_cookie with the entry's path and domain
\* for a deletion marker and set_cookie with the stored value and options
\* otherwise; that call is the one the last set_cookie or delete_cookie for
\* the key asked for; and the calls for staged cookies come before the
\* calls a session's save makes.
C9_SaveCommitsCookies ==
    call.op = "save" =>
        /\ \A key \in DOMAIN cookies :
            /\ Cardinality(CookieWrites(key)) = 1
            /\ \A i \in CookieWrites(key) :
                /\ response[i] = IF cookies[key].value = None
                                 THEN DeleteCookieOp(key, cookies[key].kwargs.path,
                                                     cookies[key].kwargs.domain)
                                 ELSE SetCookieOp(key, cookies[key].value, cookies[key].kwargs)
                /\ response[i] = Committed(key, staging[key])
        /\ \A key \in DOMAIN staging :
            staging[key].op # "unset_cookie" => key \in DOMAIN cookies
        /\ \A i, j \in 1..Len(response) :
            emitted[i][1] = "_cookies" /\ emitted[j][1] # "_cookies" => i < j

\* save has deleted one cookie under the path it was last staged with, set
\* another to the value it was last staged with, and then written a session.
C9_Witness ==
    /\ call.op = "save"
    /\ Len(response) = 3
    /\ \E i \in 1..2 :
        /\ response[i].op = "delete_cookie"
        /\ response[i].kwargs.path = PyStr(<< "/", "a" >>)
        /\ response[3 - i].op = "set_cookie"
        /\ response[3 - i].value = PyStr(<< "v", "2" >>)
    /\ emitted[3] = << DefaultBackend, CookieName >>

\* C10 as stated: set_session succeeds whether or not a session of the
\* backend was tracked before, and the tracked entry is then the value.
C10_SetSessionSucceeds ==
    call.op = "set_session" =>
        /\ call.out.raised = ""
        /\ sessions[call.arg[2]][call.name].value = call.arg[3]

\* What C11 says of an unset_cookie(key) call: the key is staged no more,
\* the other staged cookies and the tracked sessions are as before, and no
\* call is made on a response.
UnsetCookieFrame(key) ==
    /\ key \notin DOMAIN cookies'
    /\ DOMAIN cookies' = DOMAIN cookies \ { key }
    /\ \A k \in DOMAIN cookies' : cookies'[k] = cookies[k]
    /\ key \notin DOMAIN cookies => cookies' = cookies
    /\ sessions' = sessions
    /\ heap' = heap
    /\ response' = << >>

\* C11: unset_cookie(k) removes what is staged for k and nothing else, does
\* nothing where nothing is staged for k, and makes no call on a response;
\* and a save that follows it, with no set_cookie or delete_cookie for k in
\* between, makes no set_cookie or delete_cookie call for the staged cookie k.
C11_UnsetCookie ==
    [][/\ call'.op = "unset_cookie" => UnsetCookieFrame(call'.name)
       /\ call'.op = "save" =>
            \A key \in DOMAIN staging' :
                staging'[key].op = "unset_cookie" =>
                    \A i \in 1..Len(response') : emitted'[i] # << "_cookies", key >>]_vars

\* save has written one staged cookie and nothing for the other, which was
\* staged and then unset.
C11_Witness ==
    /\ call.op = "save"
    /\ Foo \in DOMAIN staging
    /\ staging[Foo].op = "unset_cookie"
    /\ staging[Foo].cancelled
    /\ CookieWrites(Foo) = { }
    /\ CookieWrites(CookieName) # { }

\* C12: where the secret key is not set, no store is constructed, and the
\* only call that has failed is the construction of the store: no
\* get_session, get_secure_cookie or set_secure_cookie call is ever made on
\* a store without a secret key.
C12_FailsAtConstruction ==
    /\ built => secret_key # REQUIRED_VALUE
    /\ secret_key = REQUIRED_VALUE /\ call.op # "" =>
        /\ call.op = "SessionStore"
        /\ call.out.raised # ""

\* The construction of the store has failed for want of a secret key.
C12_Witness ==
    /\ secret_key = REQUIRED_VALUE
    /\ call.op = "SessionStore"
    /\ call.out.raised = "KeyError"
    /\ ~built

\* get_session has just loaded the session from the cookie an earlier
\* request's save wrote, and the cookie is not expired.
LoadedWhatWasSaved ==
    /\ call.op = "get_session"
    /\ call.out.raised = ""
    /\ origin.kind = "saved"
    /\ call.name = origin.name
    /\ returned[<< call.arg[2], call.name >>].loaded
    /\ session_max_age = None \/ ~Expired(origin.ts, call.at, session_max_age[2])

\* save has written exactly one cookie for every tracked session that is
\* modified.
OneCookiePerModifiedSession ==
    call.op = "save" =>
        \A b \in DOMAIN sessions : \A k \in DOMAIN sessions[b] :
            heap[sessions[b][k].value].modified => Cardinality(WritesFor(b, k)) = 1

\* C13 as stated: whatever a session holds when save writes its cookie, the
\* session get_session loads from that cookie in the next request holds the
\* same and is not modified.
C13_PersistsAnyContents ==
    /\ OneCookiePerModifiedSession
    /\ LoadedWhatWasSaved =>
        /\ heap[call.out.val[2]].data = origin.value
        /\ ~heap[call.out.val[2]].modified

\* C13, amended: the same, for contents JSON holds as they are: string keys,
\* and values built from None, integers, strings, lists and such mappings.
C13_Persists ==
    /\ OneCookiePerModifiedSession
    /\ LoadedWhatWasSaved /\ JsonNative(origin.value) =>
        /\ heap[call.out.val[2]].data = origin.value
        /\ ~heap[call.out.val[2]].modified

\* The second request has loaded the session the first one saved.
C13_Witness ==
    /\ LoadedWhatWasSaved
    /\ origin.value = PyDict({ << UidKey, PyNum(7) >> })
    /\ heap[call.out.val[2]].data = origin.value
    /\ session_max_age # None

\* The configured default options, each overridden by the option of that
\* name the call passed, if it passed one.
Overridden(passed) ==
    [o \in DOMAIN DefaultCookieArgs |->
        IF o \in DOMAIN passed THEN passed[o] ELSE DefaultCookieArgs[o]]

\* The options of the call that created what the i-th call on the response
\* commits: a staged cookie or a tracked session.
CreatedWith(i) ==
    IF emitted[i][1] = "_cookies" THEN staging[emitted[i][2]].kwargs ELSE options[emitted[i]]

\* C14: every call save makes on the response carries the configured
\* default options overridden, option by option, by the options of the call
\* that created the entry (the get_session that tracked the pair and no
\* later one, or the latest set_session, set_cookie or delete_cookie; for a
\* deletion, the path and the domain); and config['cookie_args'] is never
\* changed.
C14_CookieOptions ==
    /\ cookie_args = DefaultCookieArgs
    /\ call.op = "save" =>
        \A i \in 1..Len(response) :
            response[i].kwargs =
                IF response[i].op = "delete_cookie"
                THEN [path |-> Overridden(CreatedWith(i)).path,
                      domain |-> Overridden(CreatedWith(i)).domain]
                ELSE Overridden(CreatedWith(i))

\* save has written a session with the path its first get_session gave, a
\* later get_session notwithstanding, after deleting a cookie in a domain.
C14_Witness ==
    /\ call.op = "save"
    /\ Len(response) = 2
    /\ response[1].op = "delete_cookie"
    /\ response[1].kwargs.domain = PyStr(<< "d" >>)
    /\ response[2].kwargs.path = PyStr(<< "/", "a" >>)
    /\ response[2].kwargs.domain = None
    /\ returned[emitted[2]].again

\* The (backend, key) pairs self._sessions tracks.
Pairs(tracked) ==
    UNION { { << backend, key >> : key \in DOMAIN tracked[backend] } : backend \in DOMAIN tracked }

\* The session tracked for this pair is modified.
ModifiedIn(tracked, objects, pair) == objects[tracked[pair[1]][pair[2]].value].modified

\* The step is a set_session call for this pair.
SetSessionStep(pair) ==
    /\ call'.op = "set_session"
    /\ call'.name = pair[2]
    /\ call'.arg[2] = pair[1]

\* C15, as stated: in every step of a store, a tracked pair stays tracked,
\* and a pair whose tracked session is modified still has a modified
\* tracked session afterwards.
C15_OnlyForwardAlways ==
    [][\A pair \in Pairs(sessions) :
        /\ pair \in Pairs(sessions')
        /\ ModifiedIn(sessions, heap, pair) => ModifiedIn(sessions', heap', pair)]_vars

\* C15, amended: the same, but for the step of a set_session call for the
\* pair, which tracks the session it is given, modified or not.
C15_OnlyForward ==
    [][\A pair \in Pairs(sessions) :
        /\ pair \in Pairs(sessions')
        /\ ~SetSessionStep(pair) =>
            (ModifiedIn(sessions, heap, pair) => ModifiedIn(sessions', heap', pair))]_vars

\* A pair tracked by get_session, whose session was then modified, is still
\* tracked and modified after a second get_session and a save.
C15_Witness ==
    /\ call.op = "save"
    /\ << DefaultBackend, CookieName >> \in DOMAIN returned
    /\ returned[<< DefaultBackend, CookieName >>].again
    /\ ~returned[<< DefaultBackend, CookieName >>].replaced
    /\ ModifiedIn(sessions, heap, << DefaultBackend, CookieName >>)

\* The operations of a session that can change its contents.
Mutations == { "setitem", "delitem", "pop", "add_flash" }

\* C16: a call that changes the contents of a session (item assignment,
\* deletion, pop of a key that is there, add_flash, also where the flash key
\* holds a list already) leaves the session modified; no call clears the
\* flag; and save writes the cookie of every tracked session that is
\* modified, holding the session's contents.
C16_MutationsMarkModified ==
    [][/\ \A id \in 1..Len(heap) :
            /\ call'.op \in Mutations /\ heap'[id].data # heap[id].data => heap'[id].modified
            /\ heap[id].modified => heap'[id].modified
       /\ call'.op = "save" =>
            \A pair \in Pairs(sessions') :
                ModifiedIn(sessions', heap', pair) =>
                    \E i \in 1..Len(response') :
                        /\ emitted'[i] = pair
                        /\ GetCookie(SecretKey, pair[2] :> response'[i].value[2], pair[2],
                                     None, clock')
                           = Returns(heap'[sessions'[pair[1]][pair[2]].value].data)]_vars

\* A session loaded from a cookie that holds the flash ['x'] was given a
\* second flash by add_flash and nothing else, and save has written it.
C16_Witness ==
    /\ call.op = "save"
    /\ Len(heap) = 1
    /\ heap[1].data = PyDict({ << FlashKey, PyList(<< PyStr(<< "x" >>), PyStr(<< "a" >>) >>) >> })
    /\ flashlog[1].last = "add_flash"
    /\ ~flashlog[1].fresh
    /\ Len(flashlog[1].vals) = 1
    /\ Len(response) = 1

\* C17: the backend's get_session is invoked only by a get_session call for
\* a pair that is not tracked and for which it was not invoked before, so at
\* most once per pair; and get_session() and get_session(cookie_name,
\* default_backend) are calls for the same pair.
C17_LoadedOnce ==
    [][\A pair \in DOMAIN loads' :
        /\ pair = << DefaultBackend, CookieName >>
        /\ loads'[pair] # LoadsOf(pair) =>
            /\ call'.op = "get_session"
            /\ pair \notin Pairs(sessions)
            /\ LoadsOf(pair) = 0
            /\ loads'[pair] = 1]_vars

\* The calls that stage, read or change without being given a response.
Deferred ==
    { "get_session", "set_session", "set_cookie", "delete_cookie", "unset_cookie",
      "get_secure_cookie", "setitem", "delitem", "pop", "add_flash", "get_flashes" }

\* C18: get_session, set_session, set_cookie, delete_cookie, unset_cookie,
\* get_secure_cookie and the calls on a session make no call on a response;
\* calls on a response are made by save and by set_secure_cookie only, and
\* the staged cookies and the modified sessions are written when save runs.
C18_DeferredCommit ==
    [][/\ call'.op \in Deferred => response' = << >>
       /\ response' # << >> => call'.op \in { "save", "set_secure_cookie" }
       /\ call'.op = "save" =>
            /\ \A key \in DOMAIN cookies : \E i \in 1..Len(response') :
                emitted'[i] = << "_cookies", key >>
            /\ \A pair \in Pairs(sessions) :
                ModifiedIn(sessions, heap, pair) => \E i \in 1..Len(response') : emitted'[i] = pair]_vars

\* A cookie was staged and a session was given a flash, after which the
\* response was still untouched; save has then written both.
C18_Witness ==
    /\ call.op = "save"
    /\ Len(response) = 2
    /\ Foo \in DOMAIN staging
    /\ staging[Foo].op = "set_cookie"
    /\ Len(heap) = 1
    /\ flashlog[1].last = "add_flash"

\* The set of calls made on a response.
Writes(ops) == { ops[i] : i \in 1..Len(ops) }

\* The same set, the signed value of a session replaced by the contents it
\* reads back as.
WritesRead(ops, for, t) ==
    { IF for[i][1] = "_cookies" THEN ops[i]
      ELSE [ops[i] EXCEPT !.value = GetCookie(SecretKey, ops[i].key :> ops[i].value[2],
                                              ops[i].key, None, t).val] : i \in 1..Len(ops) }

\* save leaves self._cookies, self._sessions and the session objects as
\* they are.
SaveConsumesNothing ==
    call'.op = "save" => cookies' = cookies /\ sessions' = sessions /\ heap' = heap

\* C19, as stated: save changes neither the tracked cookies, nor the
\* tracked sessions, nor a session's modified flag, and a save that follows
\* a save, with no other call in between, makes the same set of calls on the
\* response.
C19_SaveTwiceSameWrites ==
    [][/\ SaveConsumesNothing
       /\ saves' > 1 => Writes(response') = Writes(response)]_vars

\* C19, amended: the same, the calls being equal where the two saves are
\* made in the same second, and equal but for the time signed into the
\* session cookies, which read back as the same contents, otherwise.
C19_SaveTwice ==
    [][/\ SaveConsumesNothing
       /\ saves' > 1 =>
            /\ UnixTime(call'.at) = UnixTime(call.at) => Writes(response') = Writes(response)
            /\ WritesRead(response', emitted', clock') = WritesRead(response, emitted, clock)]_vars

\* A second save, made a tick after the first and in the same second, has
\* written the staged cookie and the modified session again.
C19_Witness ==
    /\ call.op = "save"
    /\ saves = 2
    /\ call.at = StartSecond * TicksPerSecond + 1
    /\ Len(response) = 2
    /\ \E i \in 1..2 : emitted[i] = << "_cookies", Foo >>
    /\ \E i \in 1..2 : emitted[i] = << DefaultBackend, CookieName >>
    /\ origin.kind = "request"

\* The fields of the cookie the last get_secure_cookie call has read.
PartsRead == Split(request[call.name], "|")

\* The signature field of that cookie verifies.
SignatureVerifies ==
    CheckSignature(PartsRead[3], GetSignature(SecretKey, << call.name, PartsRead[1], PartsRead[2] >>))

\* The result of a call that found no valid cookie.
Absent(out) == out.raised = "" /\ out.val = None

\* C20: get_cookie checks the field count, then the signature, then the
\* expiry, then decodes the payload: a value with a wrong field count or a
\* signature that does not verify is absent whatever its timestamp and
\* payload are, a verified one that is expired is absent whatever its
\* payload is, and every call that returns no payload returns the same
\* absent result.
C20_CheckOrder ==
    call.op = "get_secure_cookie" /\ call.name \in DOMAIN request /\ request[call.name] # << >> =>
        /\ ~WellFormed(PartsRead) => call.out = Returns(None)
        /\ WellFormed(PartsRead) /\ ~SignatureVerifies => Absent(call.out)
        /\ WellFormed(PartsRead) /\ SignatureVerifies /\ call.max_age # None
           /\ PyInt(PartsRead[2]).ok /\ Expired(PyInt(PartsRead[2]).val, call.at, call.max_age[2])
            => Absent(call.out)
        /\ ~(WellFormed(PartsRead) /\ SignatureVerifies /\ Decode(PartsRead[1]).ok
             /\ call.out = Returns(Decode(PartsRead[1]).val))
            => Absent(call.out)

\* C21: _check_signature returns true exactly for equal strings; for
\* strings of equal length it compares the characters at every position,
\* once each and wherever the strings differ; for strings of unequal length
\* it returns false and compares none.  (get_cookie's check of a signature
\* gives the same answer.)
C21_ConstantTime ==
    call.op = "_check_signature" =>
        /\ call.out.raised = ""
        /\ (call.out.val = << "bool", 1 >>) <=> (call.name = call.arg[2])
        /\ (call.out.val = << "bool", 1 >>) <=> CheckSignature(call.name, call.arg[2])
        /\ Len(call.name) = Len(call.arg[2]) => compared = [i \in 1..Len(call.name) |-> i]
        /\ Len(call.name) # Len(call.arg[2]) => compared = << >> /\ call.out.val = PyFalse

\* Two strings of the longest length that differ in the first character
\* only were compared at every position, and found unequal.
C21_Witness ==
    /\ call.op = "_check_signature"
    /\ Len(call.name) = MaxLen
    /\ Len(call.arg[2]) = MaxLen
    /\ call.name[1] # call.arg[2][1]
    /\ \A i \in 2..MaxLen : call.name[i] = call.arg[2][i]
    /\ Len(compared) = MaxLen
    /\ call.out.val = PyFalse

\* get_cookie has a reason to reject the cookie the last call has read: its
\* field count, its signature, its age, or its payload.
Rejected ==
    \/ ~WellFormed(PartsRead)
    \/ ~SignatureVerifies
    \/ /\ call.max_age # None
       /\ PyInt(PartsRead[2]).ok
       /\ Expired(PyInt(PartsRead[2]).val, call.at, call.max_age[2])
    \/ ~Decode(PartsRead[1]).ok

\* C22: a get_cookie call that rejects the cookie it finds, for its field
\* count, its signature, its age or its payload, and returns, has logged a
\* warning and returns the absent result.
C22_RejectionsLogged ==
    /\ call.op = "get_secure_cookie"
    /\ call.name \in DOMAIN request
    /\ request[call.name] # << >>
    /\ call.out.raised = ""
    /\ Rejected
    => call.out.log # "" /\ Absent(call.out)

\* The values of a list.
Elements(list) == { list[2][i] : i \in 1..Len(list[2]) }

\* C23: when the store is saved, every message the handler has set with
\* flash=True during the request is under '_messages' in the session, the
\* session is written to the response with it, and the message is not among
\* the handler's own messages, whatever the order of the set_message calls
\* and of the first access to handler.messages was.
C23_FlashMessagesDelivered ==
    call.op = "save" =>
        \A i \in 1..Len(handler.flashed) :
            /\ << DefaultBackend, CookieName >> \in Pairs(sessions)
            /\ HasKey(heap[sessions[DefaultBackend][CookieName].value].data, MessagesKey)
            /\ handler.flashed[i] \in
                Elements(GetItem(heap[sessions[DefaultBackend][CookieName].value].data,
                                 MessagesKey))
            /\ \E j \in 1..Len(response) :
                /\ emitted[j] = << DefaultBackend, CookieName >>
                /\ response[j].value
                   = PyStr(GetSignedValue(SecretKey, CookieName,
                                          heap[sessions[DefaultBackend][CookieName].value].data,
                                          clock))
            /\ handler.flashed[i] \notin { handler.messages[k] : k \in 1..Len(handler.messages) }

=============================================================================
